---- MODULE Spec2Model ----
(***************************************************************************)
(* The onboarding conversation engine of BuildFund                         *)
(* (buildfund_webapp/onboarding): the chat GET/POST endpoints, the         *)
(* per-step transition handler _process_response, the progress tracker,    *)
(* the document resolver and the document upload endpoint.                 *)
(*                                                                         *)
(* Strings are opaque in TLA+, so the text conversions of the handler      *)
(* (lower-casing, strptime, float, int, split on commas) are given as      *)
(* tables over the message alphabet AllMessages; every row is the value    *)
(* Python computes for that message.                                       *)
(***************************************************************************)
EXTENDS Integers, Sequences, FiniteSets, TLC

VARIABLES sessions, progress, roles, env, turns, uploads, last, inflight

vars == <<sessions, progress, roles, env, turns, uploads, last, inflight>>

(***************************************************************************)
(* Bounds of the model.                                                    *)
(***************************************************************************)
MaxTurns == 2
MaxSessions == 2
MaxDirectors == 2
MaxUploads == 1
MaxInflight == 2

(***************************************************************************)
(* Small helpers on sequences and dictionaries.                            *)
(***************************************************************************)
Range(s) == {s[i] : i \in 1..Len(s)}

\* list.index(x): position of the first occurrence (1-based here)
IndexOf(s, x) == CHOOSE i \in 1..Len(s) : s[i] = x /\ \A j \in 1..(i - 1) : s[j] # x

\* d[k] = v on a dict
Put(d, k, v) == [x \in (DOMAIN d) \cup {k} |-> IF x = k THEN v ELSE d[x]]

Has(d, k) == k \in DOMAIN d

EmptyDict == [x \in {} |-> 0]

\* Python's None inside string-valued fields
NoneV == "<None>"

(***************************************************************************)
(* StepCatalog: the static per-role sequences.                             *)
(***************************************************************************)
BORROWER_STEPS ==
  << "welcome", "profile_name", "profile_last_name", "profile_dob",
     "contact_email", "contact_phone", "address_collection",
     "address_verification", "address_confirmation", "company_collection",
     "company_verification", "company_confirmation", "directors_list",
     "director_details", "kyc_nationality", "kyc_national_insurance",
     "kyc_source_of_funds", "financial_income", "financial_employment",
     "financial_employment_details", "financial_expenses",
     "financial_existing_debts", "financial_assets", "experience_collection",
     "documents_collection", "review", "complete" >>

LENDER_STEPS ==
  << "welcome", "profile_name", "profile_last_name", "profile_dob",
     "contact_email", "contact_phone", "address_collection",
     "address_verification", "address_confirmation", "company_collection",
     "company_verification", "company_confirmation", "directors_list",
     "director_details", "fca_registration", "fca_registration_number",
     "fca_permissions", "financial_licences", "financial_capital_requirements",
     "financial_lending_capacity", "key_personnel", "kyc_source_of_funds",
     "documents_collection", "review", "complete" >>

ADMIN_STEPS == << "welcome", "profile_name", "contact_phone", "complete" >>

CONSULTANT_STEPS ==
  << "welcome", "profile_name", "profile_last_name", "profile_dob",
     "contact_email", "contact_phone", "address_collection",
     "address_verification", "address_confirmation", "company_collection",
     "company_verification", "company_confirmation", "consultant_services",
     "consultant_qualifications", "consultant_registration",
     "consultant_insurance", "consultant_coverage", "documents_collection",
     "review", "complete" >>

Roles == {"Borrower", "Lender", "Admin", "Consultant"}

get_steps_for_role(role) ==
  CASE role = "Borrower" -> BORROWER_STEPS
    [] role = "Lender" -> LENDER_STEPS
    [] role = "Admin" -> ADMIN_STEPS
    [] role = "Consultant" -> CONSULTANT_STEPS
    [] OTHER -> << >>

\* steps[current_index + 1] if current_index < len(steps) - 1 else "complete"
\* (idx is 1-based here)
NextOrComplete(steps, idx) ==
  IF idx < Len(steps) THEN steps[idx + 1] ELSE "complete"

\* current_index = steps.index(step) if step in steps else 0
CurrentIndex(steps, step) ==
  IF step \in Range(steps) THEN IndexOf(steps, step) ELSE 1

(***************************************************************************)
(* The message alphabet and the text conversions on it.                    *)
(***************************************************************************)
SkipMessages == {"skip", "Skip", "none", "N/A", "not applicable"}

PauseMessages == {"maybe later", "Later", "not now"}

AffirmMessages == {"yes", "Yes, that's correct", "ok", "ready",
                   "Yes, I'm ready to provide director details"}

DocMessages == {"done", "uploaded"}

TextMessages == {"No, that's wrong", "John"}

DateMessages == {"12/05/1980", "31/02/1980"}

NumberMessages == {"50,000", "7", "0"}

DirectorMessages == {"Ann Lee, 01/02/1970, British", "Bob Ray"}

FundingMessages == {"Revenue Based Funding", "Development Finance",
                    "Equity Finance", "Merchant Cash Advance"}

AllMessages ==
  SkipMessages \cup PauseMessages \cup AffirmMessages \cup DocMessages
  \cup TextMessages \cup DateMessages \cup NumberMessages
  \cup DirectorMessages \cup FundingMessages

\* message.lower().strip()
Lower(m) ==
  CASE m = "Skip" -> "skip"
    [] m = "N/A" -> "n/a"
    [] m = "Later" -> "later"
    [] m = "Yes, that's correct" -> "yes, that's correct"
    [] m = "Yes, I'm ready to provide director details"
         -> "yes, i'm ready to provide director details"
    [] m = "No, that's wrong" -> "no, that's wrong"
    [] m = "John" -> "john"
    [] m = "Ann Lee, 01/02/1970, British" -> "ann lee, 01/02/1970, british"
    [] m = "Bob Ray" -> "bob ray"
    [] m = "Revenue Based Funding" -> "revenue based funding"
    [] m = "Development Finance" -> "development finance"
    [] m = "Equity Finance" -> "equity finance"
    [] m = "Merchant Cash Advance" -> "merchant cash advance"
    [] OTHER -> m

\* datetime.strptime(s, "%d/%m/%Y").strftime("%Y-%m-%d"); NoneV when it raises
ParseDate(s) ==
  CASE s = "12/05/1980" -> "1980-05-12"
    [] s = "01/02/1970" -> "1970-02-01"
    [] OTHER -> NoneV

\* float(message.replace(",", "").replace(pound, "")): ok is FALSE when it raises
ParseFloat(m) ==
  CASE m = "50,000" -> [ok |-> TRUE, val |-> 50000]
    [] m = "7" -> [ok |-> TRUE, val |-> 7]
    [] m = "0" -> [ok |-> TRUE, val |-> 0]
    [] OTHER -> [ok |-> FALSE, val |-> 0]

\* int(message): ok is FALSE when it raises
ParseInt(m) ==
  CASE m = "7" -> [ok |-> TRUE, val |-> 7]
    [] m = "0" -> [ok |-> TRUE, val |-> 0]
    [] OTHER -> [ok |-> FALSE, val |-> 0]

\* [p.strip() for p in message.split(",")]
SplitComma(m) ==
  CASE m = "Yes, that's correct" -> << "Yes", "that's correct" >>
    [] m = "Yes, I'm ready to provide director details"
         -> << "Yes", "I'm ready to provide director details" >>
    [] m = "No, that's wrong" -> << "No", "that's wrong" >>
    [] m = "50,000" -> << "50", "000" >>
    [] m = "Ann Lee, 01/02/1970, British"
         -> << "Ann Lee", "01/02/1970", "British" >>
    [] OTHER -> << m >>

(***************************************************************************)
(* DocumentRequirementResolver.                                            *)
(***************************************************************************)
\* get_required_documents: name, category and the optional required_if field
BorrowerDocuments ==
  << [name |-> "Proof of Identity", category |-> "identity", required_if |-> NoneV],
     [name |-> "Proof of Address", category |-> "address", required_if |-> NoneV],
     [name |-> "Bank Statements", category |-> "financial", required_if |-> NoneV],
     [name |-> "Company Accounts", category |-> "company",
      required_if |-> "company_registration_number"],
     [name |-> "Certificate of Incorporation", category |-> "company",
      required_if |-> "company_registration_number"] >>

get_required_documents(user_role) ==
  IF user_role = "Borrower" THEN BorrowerDocuments ELSE << >>

\* the tokens of req_doc["name"].lower().split() that are longer than 3
\* characters, and the category token (every category is longer than 3)
DocKeywords(doc) ==
  (CASE doc.name = "Proof of Identity" -> {"proof", "identity"}
     [] doc.name = "Proof of Address" -> {"proof", "address"}
     [] doc.name = "Bank Statements" -> {"bank", "statements"}
     [] doc.name = "Company Accounts" -> {"company", "accounts"}
     [] doc.name = "Certificate of Incorporation" -> {"certificate", "incorporation"}
     [] OTHER -> {})
  \cup {doc.category}

FileNames == {"Passport_Identity.pdf", "proof_of_address.pdf",
              "bank_statements.pdf", "company_accounts.pdf",
              "certificate.pdf", "holiday.jpg"}

\* the keywords k of the catalogue with  k in file_name.lower()
FileTokens(file_name) ==
  CASE file_name = "Passport_Identity.pdf" -> {"identity"}
    [] file_name = "proof_of_address.pdf" -> {"proof", "address"}
    [] file_name = "bank_statements.pdf" -> {"bank", "statements"}
    [] file_name = "company_accounts.pdf" -> {"company", "accounts"}
    [] file_name = "certificate.pdf" -> {"certificate"}
    [] OTHER -> {}

\* collected_data.get(key) is truthy, for a string-valued key
TruthyStr(cd, k) == Has(cd, k) /\ cd[k] # "" /\ cd[k] # NoneV

\* collected_data.get(key) is truthy, for a number-valued key
TruthyNum(cd, k) == Has(cd, k) /\ cd[k] # 0

UploadedDocs(cd) ==
  IF Has(cd, "documents_uploaded") THEN cd["documents_uploaded"] ELSE << >>

\* the required documents whose condition holds, in catalogue order
ConditionallyRequired(cd, user_role) ==
  SelectSeq(get_required_documents(user_role),
            LAMBDA d : d.required_if = NoneV \/ TruthyStr(cd, d.required_if))

DocFound(doc, uploaded) ==
  \E i \in 1..Len(uploaded) : DocKeywords(doc) \cap FileTokens(uploaded[i]) # {}

check_uploaded_documents(cd, user_role) ==
  LET uploaded == UploadedDocs(cd)
      required == ConditionallyRequired(cd, user_role)
      ok(d) == DocFound(d, uploaded) \/ Len(uploaded) >= Len(required)
      missing == SelectSeq(required, LAMBDA d : ~ok(d))
  IN [uploaded_documents |-> SelectSeq(required, ok),
      missing_documents |-> missing,
      all_uploaded |-> (Len(missing) = 0),
      uploaded_count |-> Len(uploaded),
      required_count |-> Len(required)]

(***************************************************************************)
(* VerificationGateway: what the external lookups can answer.              *)
(***************************************************************************)
\* Google geocoding call of address_collection (only made with an API key):
\* a match with all components, a match with no component, no match, or an
\* exception of the HTTP call
AddressOutcomes == {"ok_full", "ok_bare", "not_found", "error"}

\* Companies House company profile: an error, or the registered company in
\* some status
CompanyOutcomes == {"error", "active", "dissolved", "liquidation"}

RegisteredName == "ACME LTD"

DirectorPool == << "ANN LEE", "BOB RAY", "CAT DOE", "DAN FOX" >>

\* Companies House officers list: -1 is an error answer, n >= 0 the number
\* of officers returned
OfficerOutcomes == {-1} \cup (0..MaxDirectors)

\* HMRCVerificationService.verify_director: its three results, or the
\* exception its date formatting raises for an officer without a day of birth
DirectorOutcomes == {"error", "no_match", "verified", "dob_mismatch", "raise"}

NoGateway == [addr |-> "error", comp |-> "error", officers |-> -1, dir |-> "error"]

\* provided_name in registered_name or registered_name in provided_name,
\* after upper() and strip(); no message of the alphabet contains or is
\* contained in the registered name
NameMatch(registered, provided) == provided = "" \/ provided = registered

\* "company_info": None of a failed lookup
NoCompanyInfo == [is_none |-> TRUE]

\* HMRCVerificationService.verify_company on the profile answer
verify_company(outcome, company_name) ==
  IF outcome = "error"
  THEN [verified |-> FALSE, company_info |-> NoCompanyInfo, name_match |-> FALSE,
        status |-> "error"]
  ELSE LET name_match == NameMatch(RegisteredName, company_name)
           is_active == outcome \in {"active", "dissolved"}
       IN [verified |-> (name_match /\ is_active),
           company_info |-> [is_none |-> FALSE, company_name |-> RegisteredName,
                             company_status |-> outcome],
           name_match |-> name_match,
           status |-> outcome]

\* HMRCVerificationService.verify_director on the gateway's answer
verify_director(outcome) ==
  CASE outcome = "error" -> [verified |-> FALSE, name_match |-> FALSE]
    [] outcome = "no_match" -> [verified |-> FALSE, name_match |-> FALSE]
    [] outcome = "dob_mismatch" -> [verified |-> FALSE, name_match |-> TRUE]
    [] OTHER -> [verified |-> TRUE, name_match |-> TRUE]

\* formatted_address and components of the two kinds of geocoding match
FormattedAddress(outcome) ==
  IF outcome = "ok_full" THEN "10 Downing Street, London SW1A 2AA, UK"
  ELSE "London, UK"

AddressComponents(outcome) ==
  IF outcome = "ok_full"
  THEN [route |-> "Downing Street", town |-> "London",
        county |-> "Greater London", postcode |-> "SW1A 2AA"]
  ELSE EmptyDict

\* formatted_address.split(",")[0]
FirstPart(s) ==
  CASE s = "10 Downing Street, London SW1A 2AA, UK" -> "10 Downing Street"
    [] s = "London, UK" -> "London"
    [] OTHER -> s

(***************************************************************************)
(* Funding-type specific questions (dynamic sub-flow).                     *)
(***************************************************************************)
\* funding_type_map.get(funding_type, funding_type)
FundingCode(funding_type) ==
  CASE funding_type = "Development Finance" -> "development_finance"
    [] funding_type = "Senior Debt/Development Finance" -> "senior_debt"
    [] funding_type = "Commercial Mortgages" -> "commercial_mortgage"
    [] funding_type = "Mortgage Finance" -> "mortgage"
    [] funding_type = "Equity Finance" -> "equity"
    [] funding_type = "Revenue Based Funding" -> "revenue_based"
    [] funding_type = "Merchant Cash Advance" -> "merchant_cash_advance"
    [] funding_type = "Term Loans (Peer-to-Peer)" -> "term_loan_p2p"
    [] funding_type = "Bank Overdraft" -> "bank_overdraft"
    [] funding_type = "Business Credit Cards" -> "business_credit_card"
    [] funding_type = "Intellectual Property (IP) Funding" -> "ip_funding"
    [] funding_type = "Stock Finance" -> "stock_finance"
    [] funding_type = "Asset Finance" -> "asset_finance"
    [] funding_type = "Factoring / Invoice Discounting" -> "factoring"
    [] funding_type = "Trade Finance" -> "trade_finance"
    [] funding_type = "Export Finance" -> "export_finance"
    [] funding_type = "Public Sector Funding (Start Up Loan)" -> "public_sector_startup"
    [] OTHER -> funding_type

FQ(s, f, t) == [step |-> s, field |-> f, type |-> t]

get_funding_type_specific_questions(funding_type) ==
  LET code == FundingCode(funding_type)
  IN CASE code = "revenue_based" ->
            << FQ("revenue_based_monthly_revenue", "monthly_revenue", "number"),
               FQ("revenue_based_revenue_growth", "revenue_growth_percentage", "number"),
               FQ("revenue_based_customer_base", "customer_count", "number") >>
       [] code = "merchant_cash_advance" ->
            << FQ("mca_monthly_card_sales", "monthly_card_sales", "number"),
               FQ("mca_processor", "payment_processor", "text") >>
       [] code = "ip_funding" ->
            << FQ("ip_type", "ip_types", "text"),
               FQ("ip_valuation", "ip_valuation", "text") >>
       [] code = "stock_finance" ->
            << FQ("stock_value", "stock_value", "number"),
               FQ("stock_turnover", "stock_turnover_days", "number") >>
       [] code = "asset_finance" ->
            << FQ("asset_type", "asset_type", "text"),
               FQ("asset_value", "asset_value", "number") >>
       [] code = "factoring" ->
            << FQ("factoring_invoice_value", "outstanding_invoice_value", "number"),
               FQ("factoring_payment_terms", "payment_terms_days", "number") >>
       [] code = "trade_finance" ->
            << FQ("trade_transaction_value", "trade_transaction_value", "number"),
               FQ("trade_countries", "trade_countries", "text") >>
       [] code = "export_finance" ->
            << FQ("export_value", "export_value", "number"),
               FQ("export_destination", "export_destination", "text") >>
       [] code \in {"development_finance", "senior_debt", "commercial_mortgage",
                    "mortgage"} ->
            << FQ("property_address", "property_address", "text"),
               FQ("property_value", "property_value", "number"),
               FQ("loan_purpose", "loan_purpose", "text") >>
       [] OTHER -> << >>

\* step.startswith("revenue_based_") or ... or step.startswith("property_")
HasFundingPrefix(step) ==
  step \in {"revenue_based_monthly_revenue", "revenue_based_revenue_growth",
            "revenue_based_customer_base", "mca_monthly_card_sales",
            "mca_processor", "ip_type", "ip_valuation", "stock_value",
            "stock_turnover", "asset_type", "asset_value",
            "factoring_invoice_value", "factoring_payment_terms",
            "trade_transaction_value", "trade_countries", "export_value",
            "export_destination", "property_address", "property_value"}

(***************************************************************************)
(* TransitionEngine: OnboardingViewSet._process_response.                  *)
(* The result is the returned next step and the mutated collected_data,    *)
(* or fault = TRUE when the handler raises.                                *)
(***************************************************************************)
Ret(n, cd) == [next |-> n, data |-> cd, fault |-> FALSE]

Raise(cd) == [next |-> "", data |-> cd, fault |-> TRUE]

SkipCommands == {"skip", "none", "n/a", "not applicable"}

StartCommands == {"yes, let's start", "yes", "ok", "sure", "let's go"}

\* mutant of PauseCommands: one command is missing from the list
PauseCommandsShort == {"maybe later", "later"}

PauseCommands == {"maybe later", "later", "not now"}

ConfirmWords == {"yes", "yes, that's correct", "correct", "yes that's correct"}

ReadyWords == {"yes", "yes, i'm ready", "ready",
               "yes i'm ready to provide director details"}

DoneWords == {"done", "finished", "complete", "all uploaded", "uploaded"}

\* mutant of SkipTarget: the bound of the index test is off by one
SkipTargetOffByOne(steps, idx, step) ==
  IF idx < Len(steps) - 1 THEN steps[idx + 1] ELSE step

\* the universal skip rule of views.py:294-298
SkipTarget(steps, idx, step) ==
  IF idx < Len(steps) THEN steps[idx + 1] ELSE step

\* try: cd[field] = float(...)  except: pass
StoreFloat(cd, field, message) ==
  IF ParseFloat(message).ok THEN Put(cd, field, ParseFloat(message).val) ELSE cd

\* try: cd[field] = float(...)  except: cd[field] = 0
StoreFloatOrZero(cd, field, message) ==
  Put(cd, field, IF ParseFloat(message).ok THEN ParseFloat(message).val ELSE 0)

\* float(collected_data.get(field, 0) or 0)
NumOrZero(cd, field) == IF Has(cd, field) THEN cd[field] ELSE 0

\* mutant of address_collection: a failed lookup asks for the postcode again
address_collection_reasks(message, cd, steps, idx, e, gw) ==
  LET cd1 == Put(cd, "postcode", message)
  IN IF e.google_key /\ gw.addr \in {"ok_full", "ok_bare"}
     THEN Ret("address_verification",
              Put(cd1, "address_verification_data",
                  [verified |-> TRUE,
                   formatted_address |-> FormattedAddress(gw.addr),
                   has_components |-> TRUE,
                   components |-> AddressComponents(gw.addr),
                   message |-> "Address found via postcode lookup"]))
     ELSE Ret("address_collection",
              Put(cd1, "address_verification_data",
                  [verified |-> FALSE, formatted_address |-> NoneV,
                   has_components |-> FALSE, components |-> EmptyDict,
                   message |-> "could not find"]))

address_collection(message, cd, steps, idx, e, gw) ==
  LET cd1 == Put(cd, "postcode", message)
      failed(msg) == [verified |-> FALSE, formatted_address |-> NoneV,
                      has_components |-> FALSE, components |-> EmptyDict,
                      message |-> msg]
  IN IF e.google_key /\ gw.addr \in {"ok_full", "ok_bare"}
     THEN LET comps == AddressComponents(gw.addr)
              cd2 == Put(cd1, "address_verification_data",
                         [verified |-> TRUE,
                          formatted_address |-> FormattedAddress(gw.addr),
                          has_components |-> TRUE, components |-> comps,
                          message |-> "Address found via postcode lookup"])
              cd3 == IF Has(comps, "town") THEN Put(cd2, "town", comps["town"]) ELSE cd2
              cd4 == IF Has(comps, "county") THEN Put(cd3, "county", comps["county"]) ELSE cd3
          IN Ret("address_verification", cd4)
     ELSE Ret(NextOrComplete(steps, idx),
              Put(cd1, "address_verification_data",
                  failed(IF ~e.google_key THEN "not configured"
                         ELSE IF gw.addr = "not_found" THEN "could not find"
                         ELSE "error looking up")))

AfterConfirmation(target, steps, idx) ==
  IF target \in Range(steps) THEN target ELSE NextOrComplete(steps, idx)

address_verification(message_lower, cd, steps, idx) ==
  IF message_lower \in ConfirmWords
  THEN IF ~Has(cd, "address_verification_data")
       THEN \* addr_data = {}: every lookup falls back to ""
            Ret(AfterConfirmation("address_confirmation", steps, idx),
                Put(Put(Put(Put(cd, "address_line_1", ""), "town", ""), "county", ""),
                    "postcode", IF Has(cd, "postcode") THEN cd["postcode"] ELSE ""))
       ELSE LET addr == cd["address_verification_data"]
                comps == addr.components
                route == IF Has(comps, "route") THEN comps["route"] ELSE ""
            IN IF route = "" /\ addr.formatted_address = NoneV
               THEN Raise(cd)  \* None.split(",")
               ELSE LET line1 == IF route # "" THEN route
                                 ELSE FirstPart(addr.formatted_address)
                        pc == IF Has(comps, "postcode") /\ comps["postcode"] # ""
                              THEN comps["postcode"]
                              ELSE IF Has(cd, "postcode") THEN cd["postcode"] ELSE ""
                    IN Ret(AfterConfirmation("address_confirmation", steps, idx),
                           Put(Put(Put(Put(cd, "address_line_1", line1),
                                       "town", IF Has(comps, "town") THEN comps["town"] ELSE ""),
                                   "county", IF Has(comps, "county") THEN comps["county"] ELSE ""),
                               "postcode", pc))
  ELSE Ret(AfterConfirmation("address_confirmation", steps, idx), cd)

company_collection(message, cd, steps, idx, e, gw) ==
  LET cd1 == Put(cd, "company_registration_number", message)
  IN IF ~e.hmrc_key
     THEN Ret(NextOrComplete(steps, idx), cd1)
     ELSE LET company_name == IF Has(cd1, "company_name") THEN cd1["company_name"] ELSE ""
              v == verify_company(gw.comp, company_name)
              base == [verified |-> v.verified, company_info |-> v.company_info,
                       name_match |-> v.name_match, status |-> v.status,
                       has_directors |-> FALSE, directors |-> << >>]
          IN IF v.verified /\ gw.officers >= 0
             THEN Ret("company_verification",
                      Put(cd1, "company_verification_data",
                          [base EXCEPT !.has_directors = TRUE,
                                       !.directors = SubSeq(DirectorPool, 1, gw.officers)]))
             ELSE Ret(NextOrComplete(steps, idx),
                      Put(cd1, "company_verification_data", base))

\* mutant of company_verification: a rejection drops the looked-up company
company_verification_clears(message_lower, cd, steps, idx) ==
  IF message_lower \in ConfirmWords
  THEN IF ~Has(cd, "company_verification_data")
       THEN Ret(AfterConfirmation("company_confirmation", steps, idx),
                Put(cd, "company_name", ""))
       ELSE LET info == cd["company_verification_data"].company_info
            IN IF info.is_none
               THEN Raise(cd)
               ELSE Ret(AfterConfirmation("company_confirmation", steps, idx),
                        Put(cd, "company_name", info.company_name))
  ELSE Ret("company_collection",
           [k \in DOMAIN cd \ {"company_verification_data"} |-> cd[k]])

company_verification(message_lower, cd, steps, idx) ==
  IF message_lower \in ConfirmWords
  THEN IF ~Has(cd, "company_verification_data")
       THEN Ret(AfterConfirmation("company_confirmation", steps, idx),
                Put(cd, "company_name", ""))
       ELSE LET info == cd["company_verification_data"].company_info
            IN IF info.is_none
               THEN Raise(cd)  \* None.get("company_name", "")
               ELSE Ret(AfterConfirmation("company_confirmation", steps, idx),
                        Put(cd, "company_name", info.company_name))
  ELSE Ret("company_collection", cd)

\* collected_data.get("company_verification_data", {}).get("directors", [])
DirectorsOf(cd) ==
  IF Has(cd, "company_verification_data")
  THEN cd["company_verification_data"].directors
  ELSE << >>

directors_list(message_lower, cd, steps, idx) ==
  IF message_lower \in ReadyWords
  THEN LET cd1 == Put(cd, "directors_collected", << >>)
       IN IF Len(DirectorsOf(cd1)) > 0
          THEN Ret("director_details", cd1)
          ELSE Ret(NextOrComplete(steps, idx), cd1)
  ELSE Ret(NextOrComplete(steps, idx), cd)

DirectorsCollected(cd) ==
  IF Has(cd, "directors_collected") THEN cd["directors_collected"] ELSE << >>

\* whether director_details calls verify_director, and with which dob_str
CallsVerifyDirector(cd, e) == e.hmrc_key /\ TruthyStr(cd, "company_registration_number")

DirectorDob(message) ==
  LET parts == SplitComma(message)
  IN IF Len(parts) > 1 THEN parts[2] ELSE NoneV

director_details(message, cd, steps, idx, e, gw) ==
  LET parts == SplitComma(message)
      dob == DirectorDob(message)
      dob_str == IF dob = NoneV \/ dob = "" THEN NoneV ELSE ParseDate(dob)
      calls == CallsVerifyDirector(cd, e)
      director_data ==
        [name |-> parts[1],
         date_of_birth |-> dob,
         nationality |-> IF Len(parts) > 2 THEN parts[3] ELSE NoneV,
         has_verification |-> calls,
         verification |-> IF calls THEN verify_director(gw.dir)
                          ELSE [verified |-> FALSE, name_match |-> FALSE]]
      collected == Append(DirectorsCollected(cd), director_data)
  IN IF calls /\ gw.dir = "raise" /\ dob_str # NoneV
     THEN Raise(cd)
     ELSE Ret(IF Len(collected) < Len(DirectorsOf(cd))
              THEN "director_details"
              ELSE NextOrComplete(steps, idx),
              Put(cd, "directors_collected", collected))

\* the handlers that store the raw message and advance
TextField(step) ==
  CASE step = "profile_name" -> "first_name"
    [] step = "profile_last_name" -> "last_name"
    [] step = "contact_email" -> "email"
    [] step = "contact_phone" -> "phone_number"
    [] step = "address_confirmation" -> "address_line_1"
    [] step = "company_confirmation" -> "company_name"
    [] step = "kyc_nationality" -> "nationality"
    [] step = "kyc_national_insurance" -> "national_insurance_number"
    [] step = "kyc_source_of_funds" -> "source_of_funds"
    [] step = "financial_employment" -> "employment_status"
    [] step = "fca_registration_number" -> "fca_registration_number"
    [] step = "fca_permissions" -> "fca_permissions"
    [] step = "financial_licences" -> "financial_licences"
    [] step = "key_personnel" -> "key_personnel"
    [] OTHER -> NoneV

\* the handlers  try: cd[field] = float(...)  except: pass
FloatField(step) ==
  CASE step = "financial_income" -> "annual_income"
    [] step = "financial_expenses" -> "monthly_expenses"
    [] step = "financial_assets" -> "total_assets"
    [] step = "financial_capital_requirements" -> "regulatory_capital"
    [] step = "financial_lending_capacity" -> "lending_capacity"
    [] OTHER -> NoneV

\* the handlers  try: cd[field] = float(...)  except: cd[field] = 0
FloatOrZeroField(step) ==
  CASE step = "financial_existing_debts" -> "existing_debts"
    [] step = "assets_real_estate" -> "assets_real_estate"
    [] step = "assets_investments" -> "assets_investments"
    [] step = "assets_other" -> "assets_other"
    [] step = "liabilities_mortgages" -> "liabilities_mortgages"
    [] step = "liabilities_loans" -> "liabilities_loans"
    [] step = "liabilities_other" -> "liabilities_other"
    [] OTHER -> NoneV

assets_liabilities_summary(message_lower, cd, steps, idx) ==
  IF message_lower \in ConfirmWords
  THEN LET total_assets == NumOrZero(cd, "assets_real_estate")
                           + NumOrZero(cd, "assets_investments")
                           + NumOrZero(cd, "assets_other")
                           + NumOrZero(cd, "total_assets")
           total_liabilities == NumOrZero(cd, "liabilities_mortgages")
                                + NumOrZero(cd, "liabilities_loans")
                                + NumOrZero(cd, "liabilities_other")
                                + NumOrZero(cd, "existing_debts")
       IN Ret(NextOrComplete(steps, idx),
              Put(Put(Put(cd, "total_assets_calculated", total_assets),
                      "total_liabilities_calculated", total_liabilities),
                  "net_worth_calculated", total_assets - total_liabilities))
  ELSE Ret("assets_real_estate", cd)

funding_type_selection(message, cd, steps, idx) ==
  LET cd1 == Put(cd, "funding_type", message)
      funding_questions == get_funding_type_specific_questions(message)
  IN IF Len(funding_questions) > 0
     THEN Ret(funding_questions[1].step,
              Put(Put(cd1, "funding_type_questions", funding_questions),
                  "current_funding_question_index", 0))
     ELSE Ret(NextOrComplete(steps, idx), cd1)

\* mutant of funding_question: the sub-flow ends after its first answer
funding_question_ends_early(step, message, cd, steps, idx) ==
  Ret(NextOrComplete(steps, idx),
      Put(cd, "current_funding_question_index",
          (IF Has(cd, "current_funding_question_index")
           THEN cd["current_funding_question_index"] ELSE 0) + 1))

\* the dynamic handler of views.py:686-716
funding_question(step, message, cd, steps, idx) ==
  LET funding_questions == IF Has(cd, "funding_type_questions")
                           THEN cd["funding_type_questions"] ELSE << >>
      current_index_funding ==
        (IF Has(cd, "current_funding_question_index")
         THEN cd["current_funding_question_index"] ELSE 0) + 1
      hits == {i \in 1..Len(funding_questions) : funding_questions[i].step = step}
      cd1 == IF hits = {} THEN cd
             ELSE LET q == funding_questions[CHOOSE i \in hits : \A j \in hits : i <= j]
                  IN IF q.type = "number" THEN StoreFloat(cd, q.field, message)
                     ELSE Put(cd, q.field, message)
      cd2 == Put(cd1, "current_funding_question_index", current_index_funding)
  IN IF current_index_funding < Len(funding_questions)
     THEN Ret(funding_questions[current_index_funding + 1].step, cd2)
     ELSE Ret(NextOrComplete(steps, idx), cd2)

documents_collection(cd, user_role, steps, idx) ==
  IF check_uploaded_documents(cd, user_role).all_uploaded
  THEN Ret(NextOrComplete(steps, idx), cd)
  ELSE Ret("documents_collection", cd)

process_response(step, message, cd, user_role, e, gw) ==
  LET steps == get_steps_for_role(user_role)
      idx == CurrentIndex(steps, step)
      message_lower == Lower(message)
      next == NextOrComplete(steps, idx)
  IN IF Len(steps) = 0 THEN Ret("complete", cd)
     ELSE IF message_lower \in SkipCommands THEN Ret(SkipTarget(steps, idx, step), cd)
     ELSE IF message_lower \in StartCommands /\ step = "welcome"
          THEN Ret(IF Len(steps) > 1 THEN steps[2] ELSE "complete", cd)
     ELSE IF message_lower \in PauseCommands THEN Ret("paused", cd)
     ELSE IF TextField(step) # NoneV THEN Ret(next, Put(cd, TextField(step), message))
     ELSE IF step = "profile_dob"
          THEN Ret(next, IF ParseDate(message) # NoneV
                         THEN Put(cd, "date_of_birth", ParseDate(message)) ELSE cd)
     ELSE IF step = "address_collection"
          THEN address_collection(message, cd, steps, idx, e, gw)
     ELSE IF step = "address_verification"
          THEN address_verification(message_lower, cd, steps, idx)
     ELSE IF step = "company_collection"
          THEN company_collection(message, cd, steps, idx, e, gw)
     ELSE IF step = "company_verification"
          THEN company_verification(message_lower, cd, steps, idx)
     ELSE IF step = "directors_list"
          THEN directors_list(message_lower, cd, steps, idx)
     ELSE IF step = "director_details"
          THEN director_details(message, cd, steps, idx, e, gw)
     ELSE IF FloatField(step) # NoneV
          THEN Ret(next, StoreFloat(cd, FloatField(step), message))
     ELSE IF FloatOrZeroField(step) # NoneV
          THEN Ret(next, StoreFloatOrZero(cd, FloatOrZeroField(step), message))
     ELSE IF step = "financial_employment_details"
          THEN LET parts == SplitComma(message)
               IN Ret(next, Put(Put(cd, "employment_company", parts[1]),
                                "employment_position",
                                IF Len(parts) > 1 THEN parts[2] ELSE ""))
     ELSE IF step = "assets_liabilities_summary"
          THEN assets_liabilities_summary(message_lower, cd, steps, idx)
     ELSE IF step = "experience_collection"
          THEN Ret(next, IF ParseInt(message).ok
                         THEN Put(cd, "experience_years", ParseInt(message).val) ELSE cd)
     ELSE IF step = "experience_projects"
          THEN Ret(next, Put(cd, "previous_projects",
                             IF ParseInt(message).ok THEN ParseInt(message).val ELSE 0))
     ELSE IF step \in {"portfolio_current_assets", "portfolio_property_details"}
          THEN Ret(next, IF message_lower = "no" THEN cd
                         ELSE Put(cd, IF step = "portfolio_current_assets"
                                      THEN "portfolio_description"
                                      ELSE "portfolio_property_details", message))
     ELSE IF step = "funding_type_selection"
          THEN funding_type_selection(message, cd, steps, idx)
     ELSE IF HasFundingPrefix(step)
          THEN funding_question(step, message, cd, steps, idx)
     ELSE IF step = "fca_registration"
          THEN Ret(next, Put(cd, "has_fca_registration", message_lower \in {"yes", "y"}))
     ELSE IF step = "documents_collection"
          THEN documents_collection(cd, user_role, steps, idx)
     ELSE Ret(next, cd)

(***************************************************************************)
(* QuestionRenderer: OnboardingChatbotService.get_next_question.           *)
(* A rendered prompt is kept as the step whose template it is and the      *)
(* value put in its placeholder; the unsubstituted token stays as fill.    *)
(***************************************************************************)
\* the keys of the questions dictionary
QuestionSteps ==
  {"welcome", "profile_name", "profile_last_name", "profile_dob",
   "contact_email", "contact_phone", "address_collection",
   "address_verification", "address_confirmation", "company_collection",
   "company_verification", "company_confirmation", "directors_list",
   "director_details", "kyc_nationality", "kyc_national_insurance",
   "kyc_source_of_funds", "financial_income", "financial_employment",
   "financial_employment_details", "financial_expenses",
   "financial_existing_debts", "financial_assets", "experience_collection",
   "experience_projects", "portfolio_current_assets",
   "portfolio_property_details", "funding_type_selection", "fca_registration",
   "fca_registration_number", "fca_permissions", "financial_licences",
   "financial_capital_requirements", "financial_lending_capacity",
   "key_personnel", "documents_collection", "review", "complete"}

Prompt(s, f, a, b) == [step |-> s, fill |-> f, n |-> a, of |-> b]

\* get_next_question raises: comp_info is None and .get is called on it
QuestionRaises(step, cd) ==
  /\ step = "company_verification"
  /\ Has(cd, "company_verification_data")
  /\ cd["company_verification_data"].company_info.is_none

\* none = TRUE is the None result of an unknown step
get_next_question(step, user_role, cd) ==
  IF step \notin QuestionSteps
  THEN [none |-> TRUE, prompt |-> Prompt(step, "", 0, 0)]
  ELSE [none |-> FALSE,
        prompt |->
          CASE step = "address_verification" ->
                 IF Has(cd, "address_verification_data")
                 THEN LET fa == cd["address_verification_data"].formatted_address
                      IN Prompt(step, IF fa = NoneV \/ fa = "" THEN "the address" ELSE fa, 0, 0)
                 ELSE Prompt(step, "{formatted_address}", 0, 0)
            [] step = "company_verification" ->
                 IF Has(cd, "company_verification_data")
                 THEN LET info == cd["company_verification_data"].company_info
                      IN Prompt(step, IF info.is_none \/ info.company_name = ""
                                      THEN "the company" ELSE info.company_name, 0, 0)
                 ELSE Prompt(step, "{company_name}", 0, 0)
            [] step = "directors_list" ->
                 IF Has(cd, "company_verification_data")
                 THEN Prompt(step, IF Len(DirectorsOf(cd)) > 0 THEN "Directors found"
                                   ELSE "No directors found", Len(DirectorsOf(cd)), 0)
                 ELSE Prompt(step, "{directors_list}", 0, 0)
            [] step = "director_details" ->
                 Prompt(step, "", Len(DirectorsCollected(cd)) + 1, Len(DirectorsOf(cd)))
            [] step = "documents_collection" ->
                 Prompt(step, "", Len(check_uploaded_documents(cd, user_role).missing_documents),
                        Len(UploadedDocs(cd)))
            [] OTHER -> Prompt(step, "", 0, 0)]

(***************************************************************************)
(* ProgressTracker: OnboardingProgress and _update_progress.               *)
(***************************************************************************)
\* a freshly created OnboardingProgress row (the field defaults)
NewProgress ==
  [profile_complete |-> FALSE, contact_complete |-> FALSE,
   company_complete |-> FALSE, address_complete |-> FALSE,
   financial_complete |-> FALSE, documents_complete |-> FALSE,
   company_verified |-> FALSE, address_verified |-> FALSE,
   completion_percentage |-> 0, is_complete |-> FALSE,
   completed_at |-> 0, current_step |-> ""]

Count(b) == IF b THEN 1 ELSE 0

\* mutant of calculate_progress: completed_at is written at every call that
\* finds the row complete
calculate_progress_restamps(p, now) ==
  LET completed == Count(p.profile_complete) + Count(p.contact_complete)
                   + Count(p.company_complete) + Count(p.address_complete)
                   + Count(p.financial_complete) + Count(p.documents_complete)
      pct == (completed * 100) \div 6
  IN [p EXCEPT !.completion_percentage = pct,
               !.is_complete = (pct = 100),
               !.completed_at = IF pct = 100 THEN now ELSE @]

\* OnboardingProgress.calculate_progress at time now (now >= 1)
calculate_progress(p, now) ==
  LET completed == Count(p.profile_complete) + Count(p.contact_complete)
                   + Count(p.company_complete) + Count(p.address_complete)
                   + Count(p.financial_complete) + Count(p.documents_complete)
      pct == (completed * 100) \div 6
  IN [p EXCEPT !.completion_percentage = pct,
               !.is_complete = (pct = 100),
               !.completed_at = IF pct = 100 /\ p.completed_at = 0 THEN now ELSE @]

VerifiedFlag(cd, key) == Has(cd, key) /\ cd[key].verified

\* mutant of update_progress: the flags are recomputed from the data of the
\* turn instead of being only ever set
update_progress_from_data(p, cd, now) ==
  IF DOMAIN cd = {} THEN p
  ELSE LET addr == TruthyStr(cd, "postcode") /\ VerifiedFlag(cd, "address_verification_data")
           comp == TruthyStr(cd, "company_registration_number")
                   /\ VerifiedFlag(cd, "company_verification_data")
       IN calculate_progress(
            [p EXCEPT !.profile_complete = (TruthyStr(cd, "first_name")
                                            /\ TruthyStr(cd, "last_name")),
                      !.contact_complete = TruthyStr(cd, "phone_number"),
                      !.address_complete = addr,
                      !.address_verified = addr,
                      !.company_complete = comp,
                      !.company_verified = comp,
                      !.financial_complete = TruthyNum(cd, "annual_income")],
            now)

update_progress(p, cd, now) ==
  IF DOMAIN cd = {} THEN p
  ELSE LET addr == TruthyStr(cd, "postcode") /\ VerifiedFlag(cd, "address_verification_data")
           comp == TruthyStr(cd, "company_registration_number")
                   /\ VerifiedFlag(cd, "company_verification_data")
       IN calculate_progress(
            [p EXCEPT !.profile_complete = @ \/ (TruthyStr(cd, "first_name")
                                                 /\ TruthyStr(cd, "last_name")),
                      !.contact_complete = @ \/ TruthyStr(cd, "phone_number"),
                      !.address_complete = @ \/ addr,
                      !.address_verified = @ \/ addr,
                      !.company_complete = @ \/ comp,
                      !.company_verified = @ \/ comp,
                      !.financial_complete = @ \/ TruthyNum(cd, "annual_income")],
            now)

(***************************************************************************)
(* ConversationSession rows and the requests of OnboardingViewSet.         *)
(* sessions is the table in its Meta ordering (-last_activity): a saved    *)
(* or created row is the first row.                                        *)
(***************************************************************************)
Users == {"u1", "u2"}

\* no session_id in the request
NoSid == 0

\* session ids a client can make up; str(uuid.uuid4()) never gives one
ClientSids == {91}

Min(S) == CHOOSE x \in S : \A y \in S : x <= y

\* chat(): the role used for the turn, from the user's UserRole rows
user_role(role_names) ==
  IF "Lender" \in role_names THEN "Lender"
  ELSE IF "Consultant" \in role_names THEN "Consultant"
  ELSE IF "Admin" \in role_names THEN "Admin"
  ELSE "Borrower"

\* OnboardingSession.objects.create(user, session_id, current_step)
NewSession(u, sid, step) ==
  [user |-> u, session_id |-> sid, current_step |-> step,
   conversation_history |-> << >>, collected_data |-> EmptyDict,
   is_active |-> TRUE]

\* session_id is unique: creating a second row with it raises IntegrityError
SidTaken(sid) == \E i \in 1..Len(sessions) : sessions[i].session_id = sid

\* str(uuid.uuid4()): an id that no row carries
FreshSid ==
  Min({n \in (Len(sessions) + 1)..(2 * Len(sessions) + 1) : ~SidTaken(n)})

\* the blank session_id of a row added through the admin site
BlankSid == -1

Drop(d, k) == [x \in (DOMAIN d) \ {k} |-> d[x]]

\* filter(user=user, is_active=True).first(): a row index, 0 when there is none
FirstActive(u) ==
  LET hits == {i \in 1..Len(sessions) : sessions[i].user = u /\ sessions[i].is_active}
  IN IF hits = {} THEN 0 ELSE Min(hits)

\* get(session_id=sid, user=user, is_active=True) of the GET branch
FindActive(u, sid) ==
  LET hits == {i \in 1..Len(sessions) : /\ sessions[i].session_id = sid
                                        /\ sessions[i].user = u
                                        /\ sessions[i].is_active}
  IN IF hits = {} THEN 0 ELSE Min(hits)

\* get(session_id=sid, user=user) of the POST branch
FindOwn(u, sid) ==
  LET hits == {i \in 1..Len(sessions) : /\ sessions[i].session_id = sid
                                        /\ sessions[i].user = u}
  IN IF hits = {} THEN 0 ELSE Min(hits)

Without(rows, i) == SubSeq(rows, 1, i - 1) \o SubSeq(rows, i + 1, Len(rows))

\* session.save() of row i (0: a row just created in this request)
Saved(rows, i, row) == << row >> \o (IF i = 0 THEN rows ELSE Without(rows, i))

\* one entry of conversation_history
Entry(t, m, f, a, b) == [type |-> t, message |-> m, fill |-> f, n |-> a, of |-> b]

UserEntry(m) == Entry("user", m, "", 0, 0)

BotEntry(p) == Entry("bot", p.step, p.fill, p.n, p.of)

WelcomeBack(pct) == Entry("bot", "Welcome back", "", pct, 0)

\* msg.get("message", "").startswith("Welcome back") for a bot entry
IsWelcomeBack(entry) == entry.type = "bot" /\ entry.message = "Welcome back"

\* OnboardingProgress.objects.get_or_create(user=user)
ProgressOf(u) == IF u \in DOMAIN progress THEN progress[u] ELSE NewProgress

\* what a request remembers of the response it arrived directly after
NoSummary ==
  [kind |-> "none", user |-> "", status |-> 0, session_id |-> NoSid,
   step |-> "", next_step |-> ""]

\* the observation of the last statement a handler executed.  event names
\* the statement; it is "response" in the state that follows a response, and
\* then the observation holds the request, what the handler read and what it
\* answered.  After any other statement it holds the request only.
NoRequest ==
  [kind |-> "none", event |-> "none", user |-> "", status |-> 0,
   session_id |-> NoSid, sid_param |-> NoSid, found |-> FALSE,
   created |-> FALSE, step |-> "", message |-> "", next_step |-> "",
   data_before |-> EmptyDict, data_after |-> EmptyDict, shown |-> "",
   history |-> << >>, gateway |-> NoGateway, after |-> NoSummary]

Summary(obs) ==
  IF obs.event # "response" THEN NoSummary
  ELSE [kind |-> obs.kind, user |-> obs.user, status |-> obs.status,
        session_id |-> obs.session_id, step |-> obs.step,
        next_step |-> obs.next_step]

Statement(event, obs) ==
  [NoRequest EXCEPT !.event = event, !.kind = obs.kind, !.user = obs.user,
                    !.session_id = obs.session_id, !.message = obs.message]

\* no session object
NoRow == NewSession("", NoSid, "")

\* a request being served: pc is the statement it executes next, row and p
\* are the session and progress objects it holds in memory, obs the
\* observation it will answer with
NewRequest(pc, obs, step_param, files, p) ==
  [pc |-> pc, obs |-> obs, step_param |-> step_param, files |-> files,
   row |-> NoRow, p |-> p]

\* the index of the row that session.save() of the object updates
RowAt(rows, row) == CHOOSE i \in 1..Len(rows) : rows[i].session_id = row.session_id

\* the requests in flight of one kind
InFlight(kind) == Cardinality({i \in 1..Len(inflight) : inflight[i].obs.kind = kind})

\* the requests in flight that may still create a session row
Creating ==
  Cardinality({i \in 1..Len(inflight) : inflight[i].pc \in {"lookup", "create"}})

\* a request leaves with its response
Respond(i, obs) ==
  /\ inflight' = Without(inflight, i)
  /\ last' = [obs EXCEPT !.event = "response"]

\* a statement that is not the last of its request
Continue(i, req, event) ==
  /\ inflight' = [inflight EXCEPT ![i] = req]
  /\ last' = Statement(event, req.obs)

\* a client that waits for each response before its next request
Idle == inflight = << >>

\* requests of several clients: at most MaxInflight are served at a time
Free == Len(inflight) < MaxInflight

\* the session table holds at most MaxSessions rows: a request is taken when
\* its lookup finds a row, when its create is refused, or when there is room
\* for the row it creates
Room(u, sid, post) ==
  \/ (IF sid = NoSid THEN FirstActive(u)
      ELSE IF post THEN FindOwn(u, sid) ELSE FindActive(u, sid)) # 0
  \/ post /\ sid # NoSid /\ SidTaken(sid)
  \/ Len(sessions) + Creating < MaxSessions

\* the state before the first request: no session row, no progress row; the
\* UserRole rows of u1 and the configured API keys are drawn from the given sets
InitWith(role_sets, envs) ==
  /\ sessions = << >>
  /\ progress = EmptyDict
  /\ roles \in {[u \in Users |-> IF u = "u1" THEN rs ELSE {}] : rs \in role_sets}
  /\ env \in envs
  /\ turns = 0
  /\ uploads = 0
  /\ last = NoRequest
  /\ inflight = << >>

\* OnboardingViewSet.progress: GET /onboarding/progress creates the progress
\* row of the user when there is none and returns it
ProgressGet(u) ==
  /\ progress' = Put(progress, u, ProgressOf(u))
  /\ last' = [NoRequest EXCEPT !.kind = "progress", !.event = "response",
                               !.user = u, !.status = 200]
  /\ UNCHANGED <<sessions, roles, env, turns, uploads, inflight>>

\* the admin site answers a saved form or a confirmed deletion with a
\* redirect, a form that does not validate with the form again, and an
\* insert the database refuses with a server error
AdminResponse(u, status) ==
  [NoRequest EXCEPT !.kind = "admin", !.event = "response", !.user = u,
                    !.status = status]

\* the fields of the OnboardingProgress admin form: every field of the row
\* but the read-only completed_at, and the user
ProgressForm(u, row) ==
  [f \in ((DOMAIN row) \ {"completed_at"}) \cup {"user"} |->
     IF f = "user" THEN u ELSE row[f]]

ProgressRow(form, completed_at) ==
  [f \in DOMAIN NewProgress |->
     IF f = "completed_at" THEN completed_at ELSE form[f]]

\* OnboardingProgressAdmin, change form of the row of u: every field of the
\* form is saved as posted; completed_at keeps its value.  user is unique: a
\* form that names a user who has a row does not validate.
AdminEdit(u, form) ==
  /\ u \in DOMAIN progress
  /\ IF form.user # u /\ form.user \in DOMAIN progress
     THEN /\ progress' = progress
          /\ last' = AdminResponse(u, 200)
     ELSE /\ progress' = Put(Drop(progress, u), form.user,
                            ProgressRow(form, progress[u].completed_at))
          /\ last' = AdminResponse(u, 302)
  /\ UNCHANGED <<sessions, roles, env, turns, uploads, inflight>>

\* OnboardingProgressAdmin, add form: a row with the posted fields and no
\* completed_at
ProgressAdminAdd(form) ==
  /\ IF form.user \in DOMAIN progress
     THEN /\ progress' = progress
          /\ last' = AdminResponse(form.user, 200)
     ELSE /\ progress' = Put(progress, form.user, ProgressRow(form, 0))
          /\ last' = AdminResponse(form.user, 302)
  /\ UNCHANGED <<sessions, roles, env, turns, uploads, inflight>>

\* OnboardingProgressAdmin, delete view
ProgressAdminDelete(u) ==
  /\ u \in DOMAIN progress
  /\ progress' = Drop(progress, u)
  /\ last' = AdminResponse(u, 302)
  /\ UNCHANGED <<sessions, roles, env, turns, uploads, inflight>>

\* the fields of the OnboardingSession admin form: session_id is read-only
SessionForm(row) ==
  [user |-> row.user, current_step |-> row.current_step,
   collected_data |-> row.collected_data,
   conversation_history |-> row.conversation_history,
   is_active |-> row.is_active]

SessionRow(form, sid) ==
  [NewSession(form.user, sid, form.current_step) EXCEPT
     !.collected_data = form.collected_data,
     !.conversation_history = form.conversation_history,
     !.is_active = form.is_active]

\* OnboardingSessionAdmin, change form of row i: the posted fields are saved
\* under the row's session_id
SessionAdminChange(i, form) ==
  /\ i \in 1..Len(sessions)
  /\ sessions' = Saved(sessions, i, SessionRow(form, sessions[i].session_id))
  /\ last' = [AdminResponse(form.user, 302) EXCEPT
               !.session_id = sessions[i].session_id]
  /\ UNCHANGED <<progress, roles, env, turns, uploads, inflight>>

\* OnboardingSessionAdmin, add form: the row gets the blank session_id; the
\* insert is refused when a row carries it already
SessionAdminAdd(form) ==
  /\ IF SidTaken(BlankSid)
     THEN /\ sessions' = sessions
          /\ last' = AdminResponse(form.user, 500)
     ELSE /\ Len(sessions) < MaxSessions
          /\ sessions' = Saved(sessions, 0, SessionRow(form, BlankSid))
          /\ last' = [AdminResponse(form.user, 302) EXCEPT !.session_id = BlankSid]
  /\ UNCHANGED <<progress, roles, env, turns, uploads, inflight>>

\* OnboardingSessionAdmin, delete view of row i
SessionAdminDelete(i) ==
  /\ i \in 1..Len(sessions)
  /\ sessions' = Without(sessions, i)
  /\ last' = [AdminResponse(sessions[i].user, 302) EXCEPT
               !.session_id = sessions[i].session_id]
  /\ UNCHANGED <<progress, roles, env, turns, uploads, inflight>>

\* ChatbotMessageSerializer.is_valid: message is required and not blank
is_valid(message) == message # ""

\* chat(), to the end of the role selection: the progress row is fetched or
\* created.  A POST whose body the serializer rejects is answered 400 here.
\* after is what the request remembers of the response before it.
ChatBegin(kind, u, sid, step_param, message, after) ==
  LET p == ProgressOf(u)
      obs == [NoRequest EXCEPT !.kind = kind, !.user = u, !.sid_param = sid,
                               !.message = message, !.after = after]
  IN /\ (kind = "post" /\ ~is_valid(message)) \/ Room(u, sid, kind = "post")
     /\ progress' = Put(progress, u, p)
     /\ UNCHANGED <<sessions, roles, env, turns, uploads>>
     /\ IF kind = "post" /\ ~is_valid(message)
        THEN /\ last' = [obs EXCEPT !.event = "response", !.status = 400]
             /\ inflight' = inflight
        ELSE /\ last' = Statement("begin", obs)
             /\ inflight' = Append(inflight,
                                   NewRequest("lookup", obs, step_param, << >>, p))

ChatGetBegin(u, sid) == ChatBegin("get", u, sid, "", "", NoSummary)

ChatPostBegin(u, sid, step_param, message) ==
  ChatBegin("post", u, sid, step_param, message, NoSummary)

\* the response of a GET on the session object row
GetResponse(req, row, created) ==
  LET p == req.p
      role == user_role(roles[req.obs.user])
      steps == get_steps_for_role(role)
      hist == row.conversation_history
      has_existing_progress == p.completion_percentage > 0 \/ Len(hist) > 0
      current_step == IF p.is_complete THEN "complete"
                      ELSE IF row.current_step # "" THEN row.current_step
                      ELSE steps[1]
      raises == QuestionRaises(current_step, row.collected_data)
      q == get_next_question(current_step, role, row.collected_data)
      question == IF q.none THEN Prompt("complete", "fallback", 0, 0) ELSE q.prompt
      shown_history ==
        IF has_existing_progress /\ Len(hist) > 0
        THEN IF \E i \in 1..Len(hist) : IsWelcomeBack(hist[i])
             THEN hist
             ELSE << WelcomeBack(p.completion_percentage) >> \o hist
        ELSE IF Len(hist) = 0 THEN << BotEntry(question) >> ELSE hist
  IN [req.obs EXCEPT
        !.status = IF raises THEN 500 ELSE 200,
        !.session_id = row.session_id,
        !.created = created,
        !.step = current_step,
        !.data_before = row.collected_data,
        !.data_after = row.collected_data,
        !.shown = IF raises THEN "" ELSE question.step,
        !.history = IF raises THEN << >> ELSE shown_history]

\* chat(), GET: the session lookup; a request that finds its row answers
ChatGetLookup(i) ==
  LET req == inflight[i]
      u == req.obs.user
      sid == req.obs.sid_param
      found == IF sid # NoSid THEN FindActive(u, sid) ELSE FirstActive(u)
  IN /\ req.obs.kind = "get" /\ req.pc = "lookup"
     /\ IF found = 0
        THEN Continue(i, [req EXCEPT !.pc = "create"], "lookup")
        ELSE Respond(i, GetResponse([req EXCEPT !.obs.found = TRUE],
                                    sessions[found], FALSE))
     /\ UNCHANGED <<sessions, progress, roles, env, turns, uploads>>

\* chat(), GET: no session was found; one is created and answers
ChatGetCreate(i) ==
  LET req == inflight[i]
      p == req.p
      row == NewSession(req.obs.user, FreshSid,
                        IF p.current_step # "" THEN p.current_step ELSE "welcome")
  IN /\ req.obs.kind = "get" /\ req.pc = "create"
     /\ sessions' = Saved(sessions, 0, row)
     /\ Respond(i, GetResponse(req, row, TRUE))
     /\ UNCHANGED <<progress, roles, env, turns, uploads>>

\* the gateway answers that a turn at this step can receive
GatewayChoices(step, message, cd, e) ==
  IF Lower(message) \in SkipCommands \cup PauseCommands THEN {NoGateway}
  ELSE IF step = "address_collection" /\ e.google_key
       THEN {[NoGateway EXCEPT !.addr = a] : a \in AddressOutcomes}
  ELSE IF step = "company_collection" /\ e.hmrc_key
       THEN {[NoGateway EXCEPT !.comp = c, !.officers = o] :
               c \in CompanyOutcomes, o \in OfficerOutcomes}
  ELSE IF step = "director_details" /\ CallsVerifyDirector(cd, e)
       THEN {[NoGateway EXCEPT !.dir = d] :
               d \in IF ParseDate(DirectorDob(message)) # NoneV
                     THEN DirectorOutcomes
                     ELSE DirectorOutcomes \ {"dob_mismatch", "raise"}}
  ELSE {NoGateway}

\* the step parameter of a POST is read only when the request creates the
\* session (or the row's current_step is blank); otherwise one value stands
\* for all
StepParams(u, sid, choices) ==
  LET found == IF sid # NoSid THEN FindOwn(u, sid) ELSE FirstActive(u)
  IN IF found # 0 /\ sessions[found].current_step # "" THEN {"welcome"} ELSE choices

\* chat(), POST: the session lookup
ChatPostLookup(i) ==
  LET req == inflight[i]
      u == req.obs.user
      sid == req.obs.sid_param
      found == IF sid # NoSid THEN FindOwn(u, sid) ELSE FirstActive(u)
  IN /\ req.obs.kind = "post" /\ req.pc = "lookup"
     /\ Continue(i, IF found = 0 THEN [req EXCEPT !.pc = "create"]
                    ELSE [req EXCEPT !.pc = "process", !.row = sessions[found],
                                     !.obs.found = TRUE,
                                     !.obs.session_id = sessions[found].session_id],
                 "lookup")
     /\ UNCHANGED <<sessions, progress, roles, env, turns, uploads>>

\* chat(), POST: no session was found; one is created with the session id of
\* the request, or with a fresh one.  session_id is unique: the create raises
\* when a row carries the id, and the request is answered 500.
ChatPostCreate(i) ==
  LET req == inflight[i]
      u == req.obs.user
      sid == req.obs.sid_param
      row == NewSession(u, IF sid # NoSid THEN sid ELSE FreshSid, req.step_param)
  IN /\ req.obs.kind = "post" /\ req.pc = "create"
     /\ UNCHANGED <<progress, roles, env, uploads>>
     /\ IF sid # NoSid /\ SidTaken(sid)
        THEN /\ sessions' = sessions
             /\ turns' = turns + 1
             /\ Respond(i, [req.obs EXCEPT !.status = 500])
        ELSE /\ sessions' = Saved(sessions, 0, row)
             /\ turns' = turns
             /\ Continue(i, [req EXCEPT !.pc = "process", !.row = row,
                                        !.obs.created = TRUE,
                                        !.obs.session_id = row.session_id],
                         "create")

\* the step a POST is processed at: session.current_step or step or "welcome"
CurrentStep(req) ==
  IF req.row.current_step # "" THEN req.row.current_step
  ELSE IF req.step_param # "" THEN req.step_param ELSE "welcome"

\* chat(), POST: the user entry is appended to the session object,
\* _process_response runs on it with the gateway answer it receives (one of
\* gateway), and session.save() writes every field of the object.  A handler
\* that raises is answered 500 and nothing is saved.
ChatPostSave(i, gateway) ==
  LET req == inflight[i]
      u == req.obs.user
      message == req.obs.message
      row == req.row
      role == user_role(roles[u])
      current_step == CurrentStep(req)
      cd == row.collected_data
      hist1 == Append(row.conversation_history, UserEntry(message))
      obs == [req.obs EXCEPT !.session_id = row.session_id,
                             !.step = current_step, !.data_before = cd]
  IN /\ req.obs.kind = "post" /\ req.pc = "process"
     /\ UNCHANGED <<progress, roles, env, uploads>>
     /\ \E gw \in GatewayChoices(current_step, message, cd, env) \cap gateway :
          LET r == process_response(current_step, message, cd, role, env, gw)
          IN IF r.fault
             THEN /\ sessions' = sessions
                  /\ turns' = turns + 1
                  /\ Respond(i, [obs EXCEPT
                                   !.status = 500, !.gateway = gw,
                                   !.data_after = cd,
                                   !.shown = IF QuestionRaises(current_step, cd) THEN ""
                                             ELSE get_next_question(current_step, role, cd).prompt.step,
                                   !.history = hist1])
             ELSE LET row2 == [row EXCEPT !.current_step = r.next,
                                          !.collected_data = r.data,
                                          !.conversation_history = hist1]
                  IN /\ sessions' = Saved(sessions, RowAt(sessions, row), row2)
                     /\ turns' = turns
                     /\ Continue(i, [req EXCEPT
                                       !.pc = IF DOMAIN r.data = {} THEN "reply"
                                              ELSE "progress",
                                       !.row = row2,
                                       !.obs = [obs EXCEPT
                                                  !.status = 200, !.gateway = gw,
                                                  !.next_step = r.next,
                                                  !.data_after = r.data]],
                                 "save")

\* chat(), POST: _update_progress sets the flags the collected data earn on
\* the progress object of the request and saves that object
ChatPostProgress(i) ==
  LET req == inflight[i]
      p2 == update_progress(req.p, req.row.collected_data, turns + 1)
  IN /\ req.obs.kind = "post" /\ req.pc = "progress"
     /\ progress' = Put(progress, req.obs.user, p2)
     /\ Continue(i, [req EXCEPT !.pc = "reply", !.p = p2], "progress")
     /\ UNCHANGED <<sessions, roles, env, turns, uploads>>

\* chat(), POST: the question of the next step; when there is one, the bot
\* entry is appended to the session object and the object is saved again;
\* then the response
ChatPostReply(i) ==
  LET req == inflight[i]
      row == req.row
      next == row.current_step
      cd == row.collected_data
      role == user_role(roles[req.obs.user])
      q_raises == QuestionRaises(next, cd)
      q == get_next_question(next, role, cd)
      silent == ~q_raises /\ q.none
      question == IF q_raises THEN Prompt(next, "ready", 0, 0) ELSE q.prompt
      hist2 == IF silent THEN row.conversation_history
               ELSE Append(row.conversation_history, BotEntry(question))
  IN /\ req.obs.kind = "post" /\ req.pc = "reply"
     /\ sessions' = IF silent THEN sessions
                    ELSE Saved(sessions, RowAt(sessions, row),
                               [row EXCEPT !.conversation_history = hist2])
     /\ turns' = turns + 1
     /\ Respond(i, [req.obs EXCEPT !.shown = IF silent THEN "" ELSE question.step,
                                   !.history = hist2])
     /\ UNCHANGED <<progress, roles, env, uploads>>

\* upload_documents(), to onboarding_data.save(): the files are recorded as
\* documents of the user
UploadBegin(u, files) ==
  LET obs == [NoRequest EXCEPT !.kind = "upload", !.user = u]
  IN /\ uploads + InFlight("upload") < MaxUploads
     /\ Len(files) > 0
     /\ inflight' = Append(inflight, NewRequest("read", obs, "", files, NewProgress))
     /\ last' = Statement("begin", obs)
     /\ UNCHANGED <<sessions, progress, roles, env, turns, uploads>>

\* upload_documents(): the first active session of the user is read and the
\* files are appended to the collected data of the object; without a session
\* the request is answered at once
UploadRead(i) ==
  LET req == inflight[i]
      found == FirstActive(req.obs.user)
      row == sessions[found]
      cd == row.collected_data
      cd2 == Put(cd, "documents_uploaded", UploadedDocs(cd) \o req.files)
  IN /\ req.obs.kind = "upload" /\ req.pc = "read"
     /\ IF found = 0
        THEN /\ uploads' = uploads + 1
             /\ Respond(i, [req.obs EXCEPT !.status = 201])
        ELSE /\ uploads' = uploads
             /\ Continue(i, [req EXCEPT
                               !.pc = "save",
                               !.row = [row EXCEPT !.collected_data = cd2],
                               !.obs = [req.obs EXCEPT
                                          !.session_id = row.session_id,
                                          !.data_before = cd,
                                          !.data_after = cd2]],
                         "read")
     /\ UNCHANGED <<sessions, progress, roles, env, turns>>

\* upload_documents(): session.save() writes every field of the object; then
\* the response
UploadSave(i) ==
  LET req == inflight[i]
  IN /\ req.obs.kind = "upload" /\ req.pc = "save"
     /\ sessions' = Saved(sessions, RowAt(sessions, req.row), req.row)
     /\ uploads' = uploads + 1
     /\ Respond(i, [req.obs EXCEPT !.status = 201])
     /\ UNCHANGED <<progress, roles, env, turns>>

\* the statements of the requests in flight, in any order
ChatGetStep == \E i \in 1..Len(inflight) : ChatGetLookup(i) \/ ChatGetCreate(i)

ChatPostStep(gateway) ==
  \E i \in 1..Len(inflight) :
    \/ ChatPostLookup(i)
    \/ ChatPostCreate(i)
    \/ ChatPostSave(i, gateway)
    \/ ChatPostProgress(i)
    \/ ChatPostReply(i)

UploadStep == \E i \in 1..Len(inflight) : UploadRead(i) \/ UploadSave(i)


(***************************************************************************)
(* Specifications.  Every specification runs the same requests; they       *)
(* differ in the sets the request parameters are drawn from, and in        *)
(* whether a request can arrive while another is served (Free) or each     *)
(* request waits for the response of the one before it (Idle).             *)
(***************************************************************************)
AllRoleSets == {{}, {"Lender"}, {"Admin"}, {"Consultant"}}

KeysOn == [google_key |-> TRUE, hmrc_key |-> TRUE]

\* settings.GOOGLE_API_KEY is empty only where the settings are overridden
KeysOff == [google_key |-> FALSE, hmrc_key |-> FALSE]

\* HMRC_API_KEY is not set: HMRCVerificationService() raises ValueError and
\* the hmrc_service property is None
HmrcOff == [google_key |-> TRUE, hmrc_key |-> FALSE]

\* steps outside the static sequences that a session can be at: the sentinel
\* paused, steps only the handler knows, and injected funding steps
ExtraSteps ==
  {"paused", "funding_type_selection", "assets_real_estate",
   "assets_liabilities_summary", "experience_projects",
   "portfolio_current_assets", "property_address", "loan_purpose"}

\* the steps of the user's own static sequence
OwnSteps(u) == Range(get_steps_for_role(user_role(roles[u])))

GatewayRecords ==
  [addr : AddressOutcomes, comp : CompanyOutcomes, officers : OfficerOutcomes,
   dir : DirectorOutcomes]

\* SpecTurns: chat turns only.  The first POST creates the session at any
\* step of the role's sequence or at an extra step; messages are the
\* universal commands in every spelling and one answer of each type.
TurnMessages ==
  SkipMessages \cup PauseMessages \cup {"yes", "John", "12/05/1980", "7"}

TurnsPost ==
  /\ Idle /\ turns < MaxTurns
  /\ \E m \in TurnMessages :
       \E st \in StepParams("u1", NoSid, OwnSteps("u1") \cup ExtraSteps) :
         ChatPostBegin("u1", NoSid, st, m)

NextTurns == TurnsPost \/ ChatPostStep(GatewayRecords)

InitTurns == InitWith(AllRoleSets, {KeysOn})

SpecTurns == InitTurns /\ [][NextTurns]_vars

\* Spec: reads, turns and uploads of one user, with and without a session id,
\* sent from several clients: a request can arrive while another is served.
\* A POST that creates the session names one of MainSteps as its step; one
\* message is blank.
MainMessages == {"skip", "Later", "done", ""}

MainSteps == {"welcome", "documents_collection"}

SidParams == {NoSid} \cup ClientSids

MainFiles == {<< "Passport_Identity.pdf" >>, << "holiday.jpg" >>}

PostTurn ==
  /\ Free /\ turns + InFlight("post") < MaxTurns
  /\ \E sid \in SidParams, m \in MainMessages :
       \E st \in StepParams("u1", sid, MainSteps) :
         ChatPostBegin("u1", sid, st, m)

GetRead == Free /\ \E sid \in SidParams : ChatGetBegin("u1", sid)

Upload == Free /\ \E files \in MainFiles : UploadBegin("u1", files)

ProgressRead == ProgressGet("u1")

Init == InitWith({{}}, {KeysOn})

Next ==
  \/ PostTurn \/ GetRead \/ Upload \/ ProgressRead
  \/ ChatPostStep(GatewayRecords) \/ ChatGetStep \/ UploadStep

Spec == Init /\ [][Next]_vars

\* SpecResume: reads and turns of one client that waits for each response,
\* with and without a session id.  Each request remembers the response it
\* follows.
ResumeMessages == {"skip", "Later", "John", "done"}

ResumePost ==
  /\ Idle /\ turns < MaxTurns
  /\ \E sid \in SidParams, m \in ResumeMessages :
       \E st \in StepParams("u1", sid, MainSteps) :
         ChatBegin("post", "u1", sid, st, m, Summary(last))

ResumeGet ==
  Idle /\ \E sid \in SidParams : ChatBegin("get", "u1", sid, "", "", Summary(last))

NextResume ==
  ResumePost \/ ResumeGet \/ ChatPostStep(GatewayRecords) \/ ChatGetStep

InitResume == InitWith({{}, {"Lender"}}, {KeysOn})

SpecResume == InitResume /\ [][NextResume]_vars

\* SpecDirectors: the company and director steps.  The session is created at
\* company_collection; the lookups answer with 0..MaxDirectors officers.
MaxDirectorTurns == 6

DirectorMessagesUsed == {"yes", "skip", "Ann Lee, 01/02/1970, British"}

DirectorGateway ==
  [addr : {"error"}, comp : {"error", "active"}, officers : OfficerOutcomes,
   dir : {"error", "verified"}]

DirectorsPost ==
  /\ Idle /\ turns < MaxDirectorTurns
  /\ \E m \in DirectorMessagesUsed :
       \E st \in StepParams("u1", NoSid, {"company_collection"}) :
         ChatPostBegin("u1", NoSid, st, m)

NextDirectors == DirectorsPost \/ ChatPostStep(DirectorGateway)

InitDirectors == InitWith({{}, {"Lender"}}, {KeysOn})

SpecDirectors == InitDirectors /\ [][NextDirectors]_vars

\* SpecProgress: turns and uploads of one Borrower that earn completion
\* flags.  Sessions are created at a step whose answer sets a flag, with and
\* without a session id, so that a later turn can run on a session that
\* holds less data than an earlier one.  The requests form a sequence: each
\* is sent after the response to the one before it.
MaxProgressTurns == 4

ProgressSteps == {"profile_name", "contact_phone", "financial_income"}

ProgressMessages == {"7", "skip"}

ProgressGateway ==
  [addr : {"ok_full", "error"}, comp : {"error"}, officers : {-1}, dir : {"error"}]

ProgressTurn ==
  /\ Idle /\ turns < MaxProgressTurns
  /\ \E sid \in SidParams, m \in ProgressMessages :
       \E st \in StepParams("u1", sid, ProgressSteps) :
         ChatPostBegin("u1", sid, st, m)

ProgressUpload == Idle /\ \E files \in MainFiles : UploadBegin("u1", files)

NextProgress ==
  ProgressTurn \/ ProgressUpload \/ ChatPostStep(ProgressGateway) \/ UploadStep

InitProgress == InitWith({{}}, {KeysOn})

SpecProgress == InitProgress /\ [][NextProgress]_vars

\* SpecCalc: calculate_progress as a function of the progress row.  The six
\* flags, is_complete and completion_percentage are inputs: the admin change
\* form of OnboardingProgress edits them (completed_at is read-only there);
\* Recalculate is one call of calculate_progress, the clock advancing by one
\* at each call.
MaxCalcs == 3

FlagNames ==
  {"profile_complete", "contact_complete", "company_complete",
   "address_complete", "financial_complete", "documents_complete"}

Recalculate(u) ==
  /\ u \in DOMAIN progress
  /\ turns < MaxCalcs
  /\ turns' = turns + 1
  /\ progress' = Put(progress, u, calculate_progress(progress[u], turns + 1))
  /\ last' = [NoRequest EXCEPT !.kind = "calc", !.event = "response", !.user = u]
  /\ UNCHANGED <<sessions, roles, env, uploads, inflight>>

CalcPercentages == {0, 100}

\* the change form of u1's row with the six flags, is_complete and
\* completion_percentage set and every other field as displayed
EditFlags ==
  \E flags \in [FlagNames -> BOOLEAN], done \in BOOLEAN, pct \in CalcPercentages :
    LET shown == ProgressForm("u1", progress["u1"])
    IN AdminEdit("u1", [f \in DOMAIN shown |->
                          IF f \in FlagNames THEN flags[f]
                          ELSE IF f = "is_complete" THEN done
                          ELSE IF f = "completion_percentage" THEN pct
                          ELSE shown[f]])

Recalc == Recalculate("u1")

NextCalc == EditFlags \/ Recalc

InitCalc ==
  /\ sessions = << >>
  /\ progress = Put(EmptyDict, "u1", NewProgress)
  /\ roles = [u \in Users |-> {}]
  /\ env = KeysOn
  /\ turns = 0
  /\ uploads = 0
  /\ last = NoRequest
  /\ inflight = << >>

SpecCalc == InitCalc /\ [][NextCalc]_vars

\* SpecJourney: one Borrower answers every question from the first step to
\* the last: yes at the confirmation steps and a value elsewhere.  The
\* lookups succeed or fail, and the documents are uploaded at any point.
MaxJourneyTurns == 27

JourneyAnswer(step) ==
  IF step \in {"address_verification", "company_verification", "directors_list"}
  THEN "yes" ELSE "7"

JourneyFiles ==
  {<< "Passport_Identity.pdf", "proof_of_address.pdf", "bank_statements.pdf",
      "company_accounts.pdf", "certificate.pdf" >>,
   << "holiday.jpg" >>}

JourneyGateway ==
  [addr : {"ok_full", "error"}, comp : {"active", "error"}, officers : {-1, 0},
   dir : {"error"}]

\* the step the next turn of the user, sent without a session id and with
\* the given step, is processed at: session.current_step or step or "welcome"
StepOfNextTurn(u, step) ==
  LET current == IF FirstActive(u) = 0 THEN step
                 ELSE sessions[FirstActive(u)].current_step
  IN IF current # "" THEN current ELSE IF step # "" THEN step ELSE "welcome"

JourneyTurn ==
  /\ Idle /\ turns < MaxJourneyTurns
  /\ \E st \in StepParams("u1", NoSid, {"welcome"}) :
       ChatPostBegin("u1", NoSid, st, JourneyAnswer(StepOfNextTurn("u1", st)))

JourneyUpload == Idle /\ \E files \in JourneyFiles : UploadBegin("u1", files)

NextJourney ==
  JourneyTurn \/ JourneyUpload \/ ChatPostStep(JourneyGateway) \/ UploadStep

InitJourney == InitWith({{}}, {KeysOn})

SpecJourney == InitJourney /\ [][NextJourney]_vars

\* SpecGateway: turns at the two collection steps, with each gateway
\* configured or not and every answer of the lookups.
GatewaySteps == {"address_collection", "company_collection"}

GatewayMessages == {"7", "John", "skip"}

GatewayTurn ==
  /\ Idle /\ turns < MaxTurns
  /\ \E m \in GatewayMessages :
       \E st \in StepParams("u1", NoSid, GatewaySteps) :
         ChatPostBegin("u1", NoSid, st, m)

NextGateway == GatewayTurn \/ ChatPostStep(GatewayRecords)

InitGateway == InitWith({{}, {"Lender"}, {"Consultant"}}, {KeysOn, HmrcOff, KeysOff})

SpecGateway == InitGateway /\ [][NextGateway]_vars

\* SpecConcurrent: POST turns and an upload of the same user overlap: the
\* statements of one request can run between any two statements of another.
ConcurrentSteps == {"welcome", "documents_collection"}

ConcurrentMessages == {"done", "John", "skip"}

ConcurrentTurn ==
  /\ Free /\ turns + InFlight("post") < MaxTurns
  /\ \E m \in ConcurrentMessages :
       \E st \in StepParams("u1", NoSid, ConcurrentSteps) :
         ChatPostBegin("u1", NoSid, st, m)

NextConcurrent ==
  ConcurrentTurn \/ Upload \/ ChatPostStep(GatewayRecords) \/ UploadStep

InitConcurrent == InitWith({{}}, {KeysOn})

SpecConcurrent == InitConcurrent /\ [][NextConcurrent]_vars

\* SpecFunding: the funding sub-flow.  The first POST creates the session at
\* funding_type_selection (the step is in no static sequence, so a session
\* is there only when the creating request names it); the messages are one
\* name or code per funding type, one text and one number answer, and skip.
MaxFundingTurns == 5

FundingChoices ==
  FundingMessages \cup
  {"senior_debt", "commercial_mortgage", "mortgage", "ip_funding",
   "stock_finance", "asset_finance", "factoring", "trade_finance",
   "export_finance", "bank_overdraft"}

FundingAnswers == {"John", "7", "skip"}

FundingTurn ==
  /\ Idle /\ turns < MaxFundingTurns
  /\ \E m \in IF FirstActive("u1") = 0 THEN FundingChoices ELSE FundingAnswers :
       \E st \in StepParams("u1", NoSid, {"funding_type_selection"}) :
         ChatPostBegin("u1", NoSid, st, m)

NextFunding == FundingTurn \/ ChatPostStep(GatewayRecords)

InitFunding == InitWith(AllRoleSets, {KeysOn})

SpecFunding == InitFunding /\ [][NextFunding]_vars

\* SpecVerification: the lookup steps and their confirmation steps.  The
\* session is created at a lookup step, every gateway outcome and every key
\* setting is tried, and the confirmation is answered yes, no, or skipped.
MaxVerificationTurns == 3

VerificationMessages == {"7", "yes", "No, that's wrong", "skip"}

VerificationTurn ==
  /\ Idle /\ turns < MaxVerificationTurns
  /\ \E m \in VerificationMessages :
       \E st \in StepParams("u1", NoSid, GatewaySteps) :
         ChatPostBegin("u1", NoSid, st, m)

NextVerification == VerificationTurn \/ ChatPostStep(GatewayRecords)

InitVerification == InitWith({{}, {"Lender"}}, {KeysOn, HmrcOff, KeysOff})

SpecVerification == InitVerification /\ [][NextVerification]_vars

\* SpecUsers: two users read, answer and upload against the same table, one
\* request after the other.  A request names no session id, an id the client
\* made up, or the id of any row of the table, its owner's or not.
UsersSids == {NoSid} \cup ClientSids \cup {sessions[i].session_id : i \in 1..Len(sessions)}

UsersMessages == {"John", "skip"}

UsersFiles == {<< "Passport_Identity.pdf" >>}

UsersPost ==
  /\ Idle /\ turns < MaxTurns
  /\ \E u \in Users, sid \in UsersSids, m \in UsersMessages :
       \E st \in StepParams(u, sid, {"welcome"}) :
         ChatPostBegin(u, sid, st, m)

UsersGet == Idle /\ \E u \in Users, sid \in UsersSids : ChatGetBegin(u, sid)

UsersUpload == Idle /\ \E u \in Users, files \in UsersFiles : UploadBegin(u, files)

UsersProgress == \E u \in Users : ProgressGet(u)

NextUsers ==
  \/ UsersPost \/ UsersGet \/ UsersUpload \/ UsersProgress
  \/ ChatPostStep(GatewayRecords) \/ ChatGetStep \/ UploadStep

InitUsers == InitWith({{}}, {KeysOn})

SpecUsers == InitUsers /\ [][NextUsers]_vars

\* SpecResolver: the resolver's inputs.  A GET creates the session and the
\* admin change form of the row puts it at documents_collection with a
\* company registration number, with a blank one or with none in its
\* collected data (the form takes any JSON object); uploads
\* then add files with matching and non-matching names, fewer and more than
\* the required documents, and turns at the step apply
\* check_uploaded_documents.
ResolverData ==
  {EmptyDict,
   Put(EmptyDict, "company_registration_number", "7"),
   Put(EmptyDict, "company_registration_number", "")}

ResolverFiles ==
  {<< f >> : f \in FileNames} \cup
  {<< "Passport_Identity.pdf", "proof_of_address.pdf" >>,
   << "holiday.jpg", "holiday.jpg" >>,
   << "holiday.jpg", "holiday.jpg", "holiday.jpg" >>,
   << "Passport_Identity.pdf", "bank_statements.pdf", "holiday.jpg" >>,
   << "company_accounts.pdf", "holiday.jpg", "holiday.jpg", "holiday.jpg" >>,
   << "holiday.jpg", "holiday.jpg", "holiday.jpg", "holiday.jpg", "holiday.jpg" >>}

ResolverMessages == {"done", "John"}

\* the session has been created and put at the step
ResolverReady ==
  /\ FirstActive("u1") # 0
  /\ sessions[FirstActive("u1")].current_step # "welcome"

ResolverGet == Idle /\ FirstActive("u1") = 0 /\ ChatGetBegin("u1", NoSid)

ResolverAdmin ==
  /\ Idle /\ FirstActive("u1") # 0 /\ ~ResolverReady
  /\ \E cd \in ResolverData :
       SessionAdminChange(1, [SessionForm(sessions[1]) EXCEPT
                                !.current_step = "documents_collection",
                                !.collected_data = cd])

ResolverTurn ==
  /\ Idle /\ ResolverReady /\ turns < MaxTurns
  /\ \E m \in ResolverMessages : ChatPostBegin("u1", NoSid, "welcome", m)

ResolverUpload ==
  Idle /\ ResolverReady /\ \E files \in ResolverFiles : UploadBegin("u1", files)

\* the session exists: no POST creates one
ResolverStep ==
  \E i \in 1..Len(inflight) :
    \/ ChatPostLookup(i)
    \/ ChatPostSave(i, GatewayRecords)
    \/ ChatPostProgress(i)
    \/ ChatPostReply(i)

NextResolver ==
  \/ ResolverGet \/ ResolverAdmin \/ ResolverTurn \/ ResolverUpload
  \/ ChatGetStep \/ ResolverStep \/ UploadStep

InitResolver == InitWith(AllRoleSets, {KeysOn})

SpecResolver == InitResolver /\ [][NextResolver]_vars

\* SpecAdmin: the admin forms of the session and progress tables between the
\* chat requests of u1, one request after the other.  A form can give a row
\* to another user, blank its step, empty its data and history, deactivate
\* it; rows are added and deleted.  A POST names a step or none.
MaxAdminTurns == 1

AdminSteps == {"", "documents_collection"}

AdminMessages == {"John"}

AdminSids ==
  {NoSid} \cup ({sessions[i].session_id : i \in 1..Len(sessions)} \ {BlankSid})

AdminSessionForms(row) ==
  [user : Users, current_step : {"", row.current_step},
   collected_data : {EmptyDict, row.collected_data},
   conversation_history : {<< >>, row.conversation_history},
   is_active : BOOLEAN]

AdminProgressForms ==
  {ProgressForm(u, [NewProgress EXCEPT !.is_complete = done,
                                       !.completion_percentage = pct]) :
     u \in Users, done \in BOOLEAN, pct \in {100}}

AdminPost ==
  /\ Idle /\ turns < MaxAdminTurns
  /\ \E sid \in AdminSids, m \in AdminMessages :
       \E st \in StepParams("u1", sid, AdminSteps) :
         ChatPostBegin("u1", sid, st, m)

AdminGet == Idle /\ \E sid \in AdminSids : ChatGetBegin("u1", sid)

AdminSessionChange ==
  /\ Idle
  /\ \E i \in 1..Len(sessions) :
       \E form \in AdminSessionForms(sessions[i]) : SessionAdminChange(i, form)

AdminSessionAdd ==
  Idle /\ \E form \in AdminSessionForms(NewSession("u1", BlankSid, "")) :
            SessionAdminAdd(form)

AdminSessionDelete == Idle /\ \E i \in 1..Len(sessions) : SessionAdminDelete(i)

AdminProgressChange ==
  Idle /\ \E u \in DOMAIN progress, form \in AdminProgressForms : AdminEdit(u, form)

AdminProgressAdd == Idle /\ \E form \in AdminProgressForms : ProgressAdminAdd(form)

AdminProgressDelete == Idle /\ \E u \in DOMAIN progress : ProgressAdminDelete(u)

NextAdmin ==
  \/ AdminPost \/ AdminGet
  \/ AdminSessionChange \/ AdminSessionAdd \/ AdminSessionDelete
  \/ AdminProgressChange \/ AdminProgressAdd \/ AdminProgressDelete
  \/ ChatPostStep(GatewayRecords) \/ ChatGetStep

InitAdmin == InitWith({{}}, {KeysOn})

SpecAdmin == InitAdmin /\ [][NextAdmin]_vars

\* SpecCompletion: one user of each role answers every question from
\* welcome on: an affirmation at the confirmation steps and at the yes/no
\* question, a date, a director record or a value elsewhere.  Every lookup
\* is answered (with or without a match), and the required documents are
\* uploaded before the turn at documents_collection.
MaxCompletionTurns == 30

CompletionAnswer(step) ==
  CASE step \in {"address_verification", "company_verification",
                 "directors_list", "fca_registration"} -> "yes"
    [] step = "profile_dob" -> "12/05/1980"
    [] step = "director_details" -> "Ann Lee, 01/02/1970, British"
    [] OTHER -> "7"

CompletionFiles ==
  << "Passport_Identity.pdf", "proof_of_address.pdf", "bank_statements.pdf",
     "company_accounts.pdf", "certificate.pdf" >>

\* the answers of the lookup that a turn at the step makes; a turn that makes
\* no call receives none
CompletionGateway(step, cd) ==
  IF step = "address_collection"
  THEN {[NoGateway EXCEPT !.addr = a] : a \in {"ok_full", "ok_bare", "not_found"}}
  ELSE IF step = "company_collection"
  THEN {[NoGateway EXCEPT !.comp = c, !.officers = o] :
          c \in {"active", "dissolved", "liquidation"}, o \in 0..MaxDirectors}
  ELSE IF step = "director_details" /\ CallsVerifyDirector(cd, env)
  THEN {[NoGateway EXCEPT !.dir = d] : d \in {"verified", "raise"}}
  ELSE {NoGateway}

CompletionTurn ==
  LET step == StepOfNextTurn("u1", "welcome")
      cd == IF FirstActive("u1") = 0 THEN EmptyDict
            ELSE sessions[FirstActive("u1")].collected_data
  IN /\ Idle /\ turns < MaxCompletionTurns
     /\ step = "documents_collection" => UploadedDocs(cd) = CompletionFiles
     /\ \E st \in StepParams("u1", NoSid, {"welcome"}) :
          ChatPostBegin("u1", NoSid, st, CompletionAnswer(step))

CompletionUpload ==
  /\ Idle
  /\ FirstActive("u1") # 0
  /\ StepOfNextTurn("u1", "welcome") \in {"profile_name", "documents_collection"}
  /\ UploadBegin("u1", CompletionFiles)

CompletionStep ==
  \E i \in 1..Len(inflight) :
    \/ ChatPostLookup(i)
    \/ ChatPostCreate(i)
    \/ ChatPostSave(i, CompletionGateway(CurrentStep(inflight[i]),
                                         inflight[i].row.collected_data))
    \/ ChatPostProgress(i)
    \/ ChatPostReply(i)

NextCompletion == CompletionTurn \/ CompletionUpload \/ CompletionStep \/ UploadStep

InitCompletion == InitWith(AllRoleSets, {KeysOn})

SpecCompletion == InitCompletion /\ [][NextCompletion]_vars

(***************************************************************************)
(* Claims.  They read the observation of the last request (last) and the   *)
(* persisted rows.                                                         *)
(***************************************************************************)
\* the persisted row the last request worked on
LastRow == sessions[CHOOSE i \in 1..Len(sessions) : sessions[i].session_id = last.session_id]

LastRole == user_role(roles[last.user])

LastSteps == get_steps_for_role(LastRole)

\* the last request was a POST turn that read a message at a step
IsTurn == last.event = "response" /\ last.kind = "post" /\ last.step # ""

\* C1 (document gate): a turn of a Borrower at documents_collection whose
\* collected data still miss a required document does not move the session
\* to review or complete, whatever the message.
C1_DocumentGate ==
  (/\ IsTurn /\ LastRole = "Borrower"
   /\ last.step = "documents_collection"
   /\ Len(check_uploaded_documents(last.data_before, "Borrower").missing_documents) > 0)
  => LastRow.current_step \notin {"review", "complete"}

\* C2 (director loop bound): a turn at director_details with N >= 1 directors
\* looked up and fewer than N collected appends one record, and the session
\* leaves director_details exactly when the N-th record has been appended.
C2_DirectorLoopBound ==
  LET n == Len(DirectorsOf(last.data_before))
      before == Len(DirectorsCollected(last.data_before))
      after == Len(DirectorsCollected(last.data_after))
  IN (/\ IsTurn /\ last.step = "director_details"
      /\ n >= 1 /\ before < n)
     => /\ last.status = 200
        /\ after = before + 1
        /\ (LastRow.current_step = "director_details") <=> (after < n)

\* C3 (zero directors): a turn at directors_list with an empty or absent
\* director list, whose message is no universal command, moves the session
\* to the step that follows director_details in the role's sequence.
C3_ZeroDirectors ==
  (/\ IsTurn /\ last.status = 200
   /\ last.step = "directors_list"
   /\ Lower(last.message) \notin SkipCommands \cup PauseCommands
   /\ Len(DirectorsOf(last.data_before)) = 0
   /\ "director_details" \in Range(LastSteps))
  => LastRow.current_step =
       NextOrComplete(LastSteps, CurrentIndex(LastSteps, "director_details"))

\* C4 (idempotent retry): at a date or number step, a message that is not a
\* universal command and does not parse is answered without an error, leaves
\* collected_data as it was and leaves the session at the same step.
Unparseable(step, message) ==
  /\ Lower(message) \notin {"skip", "none", "n/a", "not applicable",
                            "maybe later", "later", "not now"}
  /\ CASE step = "profile_dob" -> ParseDate(message) = NoneV
       [] step = "experience_collection" -> ~ParseInt(message).ok
       [] OTHER -> ~ParseFloat(message).ok

C4_IdempotentRetry ==
  (/\ IsTurn
   /\ last.step \in {"profile_dob", "financial_income", "financial_expenses",
                     "financial_assets", "experience_collection",
                     "financial_capital_requirements",
                     "financial_lending_capacity"}
   /\ Unparseable(last.step, last.message))
  => /\ last.status = 200
     /\ last.data_after = last.data_before
     /\ LastRow.current_step = last.step

\* C5 (universal skip): a turn at a step S of the role's static sequence
\* whose message, lower-cased, is skip, none, n/a or not applicable succeeds
\* and stores as current step the element that follows S in the sequence,
\* or complete when S is the last element.
C5_UniversalSkip ==
  (/\ IsTurn
   /\ Lower(last.message) \in {"skip", "none", "n/a", "not applicable"}
   /\ \E i \in 1..Len(LastSteps) : LastSteps[i] = last.step)
  => LET i == CHOOSE j \in 1..Len(LastSteps) : LastSteps[j] = last.step
         expected == IF i = Len(LastSteps) THEN "complete" ELSE LastSteps[i + 1]
     IN /\ last.status = 200
        /\ last.next_step = expected
        /\ LastRow.current_step = expected

\* C5 witness: Scenario B of the specification, with data already collected:
\* skip at the number step financial_expenses of a Borrower moves to
\* financial_existing_debts.
C5_Witness ==
  /\ IsTurn /\ LastRole = "Borrower"
  /\ last.message = "N/A"
  /\ last.step = "financial_expenses"
  /\ last.data_before # EmptyDict
  /\ LastRow.current_step = "financial_existing_debts"

\* C6 (single active session): every user has at most one active session row.
ActiveRows(u) ==
  {i \in 1..Len(sessions) : sessions[i].user = u /\ sessions[i].is_active}

C6_SingleActiveSession ==
  \A u \in Users : Cardinality(ActiveRows(u)) <= 1

\* C7 (idempotent resumption): a GET that directly follows a GET of the same
\* user returns the same current step, and no history returned by a GET holds
\* the Welcome back marker twice.
MarkerCount(history) ==
  Cardinality({i \in 1..Len(history) : IsWelcomeBack(history[i])})

C7_IdempotentResumption ==
  (last.event = "response" /\ last.kind = "get") =>
    /\ (/\ last.status = 200
        /\ last.after.kind = "get" /\ last.after.status = 200
        /\ last.after.user = last.user)
       => last.step = last.after.step
    /\ MarkerCount(last.history) <= 1

\* C8 (pause): a turn at any step whose message, lower-cased, is maybe later,
\* later or not now succeeds, stores paused as the current step and leaves
\* collected_data exactly as it was before the turn.
C8_Pause ==
  (IsTurn /\ Lower(last.message) \in {"maybe later", "later", "not now"})
  => /\ last.status = 200
     /\ last.next_step = "paused"
     /\ LastRow.current_step = "paused"
     /\ last.data_after = last.data_before
     /\ LastRow.collected_data = last.data_before

\* C8 witness: a pause at a data step of a session that has collected data.
C8_Witness ==
  /\ IsTurn
  /\ last.message = "not now"
  /\ last.step = "profile_last_name"
  /\ Has(last.data_before, "first_name")
  /\ LastRow.current_step = "paused"
  /\ LastRow.collected_data = last.data_before

\* C9 (resume after pause): after a turn that paused the session at step S,
\* the next GET of that session presents the question of S, and the next
\* turn of that session that is no command is processed at S.
PausedAt ==
  /\ last.event = "response"
  /\ last.after.kind = "post" /\ last.after.status = 200
  /\ last.after.next_step = "paused" /\ last.after.step # "paused"

C9_ResumeAfterPause ==
  (PausedAt /\ last.user = last.after.user
            /\ last.session_id = last.after.session_id)
  => /\ (last.kind = "get" /\ last.status = 200) => last.shown = last.after.step
     /\ (/\ last.kind = "post" /\ last.status = 200
         /\ Lower(last.message) \notin SkipCommands \cup PauseCommands
                                        \cup StartCommands)
        => last.step = last.after.step

\* C10 (complete is terminal): a turn processed at the step complete leaves
\* the session at complete, whatever the message.
C10_CompleteIsTerminal ==
  (IsTurn /\ last.step = "complete") => LastRow.current_step = "complete"

\* C11 (monotonic progress): no turn and no upload lowers the stored
\* completion_percentage of a user.
C11_MonotonicProgress ==
  [][\A u \in DOMAIN progress :
       /\ u \in DOMAIN progress'
       /\ progress'[u].completion_percentage >= progress[u].completion_percentage]_vars

\* C11 witness: the percentage has been earned on one session (phone number)
\* and a later turn ran on another session whose data lack the phone number.
C11_Witness ==
  /\ last.kind = "post" /\ last.status = 200
  /\ DOMAIN last.data_after # {}
  /\ ~TruthyStr(last.data_after, "phone_number")
  /\ progress["u1"].contact_complete
  /\ progress["u1"].completion_percentage >= 33

\* C12 (sticky completion flag): a call of calculate_progress on a row whose
\* is_complete is true leaves is_complete true, whatever the six flags are.
C12_StickyCompletionFlag ==
  [][(last'.kind = "calc" /\ progress["u1"].is_complete)
     => progress'["u1"].is_complete]_vars

\* C13 (sticky completion time): completed_at is written only by a call of
\* calculate_progress that finds all six flags true while completed_at is
\* unset, with the time of that call; once set it never changes.
AllFlags(p) == \A f \in FlagNames : p[f]

C13_StickyCompletionTime ==
  [][LET p == progress["u1"]
         q == progress'["u1"]
     IN /\ p.completed_at # 0 => q.completed_at = p.completed_at
        /\ (p.completed_at = 0 /\ q.completed_at # 0)
           => /\ last'.kind = "calc" /\ AllFlags(p)
              /\ q.completed_at = turns']_vars

\* C13 witness: a call of calculate_progress later than the one that set
\* completed_at, on a row with a flag false, has left completed_at as it was.
C13_Witness ==
  /\ last.kind = "calc"
  /\ progress["u1"].completed_at # 0
  /\ progress["u1"].completed_at < turns
  /\ ~progress["u1"].documents_complete

\* C14 (percentage formula): after calculate_progress, completion_percentage
\* is 100 * k / 6 rounded to the nearest integer, k being the number of true
\* flags among the six.
FlagCount(p) == Cardinality({f \in FlagNames : p[f]})

RoundDiv(n, d) == (2 * n + d) \div (2 * d)

C14_PercentageFormula ==
  last.kind = "calc"
  => progress["u1"].completion_percentage
       = RoundDiv(100 * FlagCount(progress["u1"]), 6)

\* C15 (six-milestone completion): after a turn of a Borrower whose collected
\* data hold first and last name, phone number, a verified address, a
\* verified company, an annual income and every required document, the
\* progress row has documents_complete true, completion_percentage 100 and
\* is_complete true.
AllMilestones(cd) ==
  /\ TruthyStr(cd, "first_name") /\ TruthyStr(cd, "last_name")
  /\ TruthyStr(cd, "phone_number")
  /\ TruthyStr(cd, "postcode") /\ VerifiedFlag(cd, "address_verification_data")
  /\ TruthyStr(cd, "company_registration_number")
  /\ VerifiedFlag(cd, "company_verification_data")
  /\ TruthyNum(cd, "annual_income")
  /\ Len(UploadedDocs(cd)) > 0
  /\ check_uploaded_documents(cd, "Borrower").all_uploaded

C15_SixMilestoneCompletion ==
  (/\ IsTurn /\ last.status = 200 /\ LastRole = "Borrower"
   /\ AllMilestones(last.data_after))
  => /\ progress[last.user].documents_complete
     /\ progress[last.user].completion_percentage = 100
     /\ progress[last.user].is_complete

\* C16 (verification outcome recorded, never blocking): an answer at
\* address_collection, or at company_collection with the HMRC service
\* available, succeeds, stores the verification result with verified equal
\* to the outcome of the lookup, and moves the session to address_verification
\* (company_verification) whether verified is true or false.
AnswerTurn(step) ==
  /\ IsTurn /\ last.step = step
  /\ step \in Range(LastSteps)
  /\ Lower(last.message) \notin SkipCommands \cup PauseCommands

C16_VerificationRecorded ==
  /\ AnswerTurn("address_collection")
     => /\ last.status = 200
        /\ Has(last.data_after, "address_verification_data")
        /\ last.data_after["address_verification_data"].verified
             = (env.google_key /\ last.gateway.addr \in {"ok_full", "ok_bare"})
        /\ LastRow.current_step = "address_verification"
  /\ (AnswerTurn("company_collection") /\ env.hmrc_key)
     => /\ last.status = 200
        /\ Has(last.data_after, "company_verification_data")
        /\ last.data_after["company_verification_data"].verified
             = verify_company(last.gateway.comp,
                              IF Has(last.data_before, "company_name")
                              THEN last.data_before["company_name"] ELSE "").verified
        /\ LastRow.current_step = "company_verification"

\* C16 witness: a postcode the lookup does not find, with the key configured:
\* verified false is stored and the session is at address_verification.
C16_Witness ==
  /\ AnswerTurn("address_collection") /\ last.status = 200
  /\ env.google_key /\ last.gateway.addr = "not_found"
  /\ ~last.data_after["address_verification_data"].verified
  /\ LastRow.current_step = "address_verification"

\* C17 (unavailable gateway): an answer at address_collection without a
\* Google key, or at company_collection without the HMRC service, succeeds,
\* advances, and leaves a verification result with verified false under
\* address_verification_data (company_verification_data).
C17_UnavailableGateway ==
  /\ (AnswerTurn("address_collection") /\ ~env.google_key)
     => /\ last.status = 200
        /\ LastRow.current_step = "address_verification"
        /\ Has(last.data_after, "address_verification_data")
        /\ ~last.data_after["address_verification_data"].verified
  /\ (AnswerTurn("company_collection") /\ ~env.hmrc_key)
     => /\ last.status = 200
        /\ LastRow.current_step = "company_verification"
        /\ Has(last.data_after, "company_verification_data")
        /\ ~last.data_after["company_verification_data"].verified

\* C18 (fault containment): a POST turn on an existing session whose handler
\* raises leaves every session row and the progress rows as they were, and
\* its response carries the question of the unchanged current step.  The
\* request has written nothing before the handler runs, so the rows are
\* compared across the statement that answers the fault.
HandlerFault ==
  /\ last'.event = "response"
  /\ last'.kind = "post" /\ last'.status = 500
  /\ last'.step # "" /\ ~last'.created

C18_FaultContainment ==
  [][HandlerFault
     => /\ sessions' = sessions
        /\ progress' = progress
        /\ last'.shown = last'.step]_vars

\* C20 (history order): a successful POST turn appends to the persisted
\* history of its session one user entry with the message and then one bot
\* entry with the question of the next step, and changes no earlier entry:
\* its first save adds exactly the user entry, and at its response the
\* history has grown by exactly the bot entry behind that user entry.
HistoryOf(rows, sid) ==
  IF \E i \in 1..Len(rows) : rows[i].session_id = sid
  THEN rows[CHOOSE i \in 1..Len(rows) : rows[i].session_id = sid].conversation_history
  ELSE << >>

C20_HistoryOrder ==
  [][LET h == HistoryOf(sessions, last'.session_id)
         g == HistoryOf(sessions', last'.session_id)
         n == Len(h)
     IN /\ (last'.kind = "post" /\ last'.event = "save")
           => g = Append(h, UserEntry(last'.message))
        /\ (last'.kind = "post" /\ last'.event = "response" /\ last'.status = 200)
           => /\ Len(g) = n + 1
              /\ SubSeq(g, 1, n) = h
              /\ h[n] = UserEntry(last'.message)
              /\ g[n + 1].type = "bot"
              /\ g[n + 1].message = last'.next_step]_vars

\* C19 (upload/turn serialization): the save of a POST turn loses no document
\* that an upload has recorded in the session row: the documents_uploaded of
\* the row before the save are still there after it.
DataOf(rows, sid) ==
  rows[CHOOSE i \in 1..Len(rows) : rows[i].session_id = sid].collected_data

C19_UploadTurnSerialization ==
  [][(/\ last'.kind = "post"
      /\ \/ last'.event = "save"
         \/ last'.event = "response" /\ last'.status = 200)
     => LET before == UploadedDocs(DataOf(sessions, last'.session_id))
            after == UploadedDocs(DataOf(sessions', last'.session_id))
        IN /\ Len(after) >= Len(before)
           /\ SubSeq(after, 1, Len(before)) = before]_vars

\* C21 (sub-flow injection): a non-command turn at funding_type_selection that
\* selects a funding type with extra steps moves the session to the first of
\* them; a non-command turn at the i-th extra step moves it to the (i+1)-th,
\* and at the last extra step to a step of the role's static sequence; a
\* funding type with no extra steps moves it straight to a step of the static
\* sequence.
NonCommand(m) == Lower(m) \notin SkipCommands \cup PauseCommands

ExtraStepsOf(cd) ==
  IF Has(cd, "funding_type_questions") THEN cd["funding_type_questions"] ELSE << >>

PositionIn(fq, step) ==
  IF \E i \in 1..Len(fq) : fq[i].step = step
  THEN CHOOSE i \in 1..Len(fq) : fq[i].step = step
  ELSE 0

C21_SubFlowInjection ==
  (IsTurn /\ last.status = 200 /\ NonCommand(last.message)) =>
    LET selected == get_funding_type_specific_questions(last.message)
        fq == ExtraStepsOf(last.data_before)
        i == PositionIn(fq, last.step)
    IN /\ last.step = "funding_type_selection" =>
            IF Len(selected) > 0
            THEN /\ last.next_step = selected[1].step
                 /\ ExtraStepsOf(last.data_after) = selected
            ELSE last.next_step \in Range(LastSteps)
       /\ (last.step # "funding_type_selection" /\ i > 0) =>
            IF i < Len(fq)
            THEN last.next_step = fq[i + 1].step
            ELSE last.next_step \in Range(LastSteps)

C21_Witness ==
  /\ IsTurn /\ last.status = 200 /\ NonCommand(last.message)
  /\ ExtraStepsOf(last.data_before) =
       get_funding_type_specific_questions("Development Finance")
  /\ last.step = "loan_purpose"
  /\ last.next_step \in Range(LastSteps)

\* C22 (rejection loops back without clearing): a turn at company_verification
\* whose message is neither a command nor an affirmation succeeds, sets the
\* next step to company_collection and leaves collected_data as it was.
Rejection ==
  /\ IsTurn /\ last.step = "company_verification"
  /\ NonCommand(last.message)
  /\ Lower(last.message) \notin ConfirmWords

C22_RejectionLoopsBack ==
  Rejection =>
    /\ last.status = 200
    /\ last.next_step = "company_collection"
    /\ last.data_after = last.data_before
    /\ LastRow.current_step = "company_collection"
    /\ LastRow.collected_data = last.data_before

C22_Witness ==
  /\ Rejection /\ last.message = "No, that's wrong"
  /\ Has(last.data_before, "company_verification_data")
  /\ last.data_before["company_verification_data"].verified
  /\ last.next_step = "company_collection"

\* C23 (session-not-found recovery): a chat GET or POST that names a session
\* id for which the requesting user has no matching session succeeds, and a
\* new session of that user is created and answers the request, also when a
\* session of another user carries the id.
Unmatched ==
  /\ last.event = "response"
  /\ last.kind \in {"get", "post"} /\ last.status # 400
  /\ last.sid_param # NoSid
  /\ ~last.found

C23_SessionNotFoundRecovery ==
  Unmatched
  => /\ last.status = 200
     /\ last.created
     /\ sessions[1].user = last.user
     /\ sessions[1].session_id = last.session_id

\* C29 (per-user isolation): a chat GET, chat POST or upload of user A leaves
\* the session and progress rows of every other user as they were, is
\* answered from a session that A owns, also when A names the id of another
\* user's session, and gets the response it would get if the table held A's
\* rows only: in particular a POST of A fails only if it fails on A's rows.
OwnedBy(rows, u) ==
  LET own(r) == r.user = u IN SelectSeq(rows, own)

OwnedByOthers(rows, u) ==
  LET other(r) == r.user # u IN SelectSeq(rows, other)

\* whether the session lookup of a POST of u that names sid fails on rows
LookupFails(rows, u, sid) ==
  /\ sid # NoSid
  /\ \A i \in 1..Len(rows) : rows[i].session_id = sid => rows[i].user # u
  /\ \E i \in 1..Len(rows) : rows[i].session_id = sid

IsolatedRows ==
  LET a == last'.user
  IN /\ OwnedByOthers(sessions', a) = OwnedByOthers(sessions, a)
     /\ \A b \in DOMAIN progress \ {a} :
          b \in DOMAIN progress' /\ progress'[b] = progress[b]
     /\ last'.session_id # NoSid =>
          \E i \in 1..Len(sessions') : /\ sessions'[i].session_id = last'.session_id
                                       /\ sessions'[i].user = a

C29_PerUserIsolation ==
  [][last'.kind \in {"get", "post", "upload", "progress"}
     => /\ IsolatedRows
        /\ (last'.kind = "post" /\ last'.event = "response") =>
             ((last'.status = 500)
                <=> LookupFails(OwnedBy(sessions, last'.user), last'.user,
                                last'.sid_param))]_vars

\* C24 (resolver result): on the collected data of a turn at
\* documents_collection, check_uploaded_documents splits the required
\* documents whose condition holds (no required_if, or the required_if field
\* present) into uploaded and missing, no document in both; a missing
\* document has no uploaded file name that contains one of its name tokens
\* or its category, and the uploads are fewer than the conditionally
\* required documents; all_uploaded is true exactly when missing is empty.
ConditionHolds(d, cd) == d.required_if = NoneV \/ Has(cd, d.required_if)

NameMatches(d, files) ==
  \E i \in 1..Len(files) : \E k \in DocKeywords(d) : k \in FileTokens(files[i])

ResolverChecked == IsTurn /\ last.step = "documents_collection"

C24_ResolverResult ==
  ResolverChecked =>
    LET cd == last.data_before
        r == check_uploaded_documents(cd, LastRole)
        required == {d \in Range(get_required_documents(LastRole)) :
                       ConditionHolds(d, cd)}
        files == UploadedDocs(cd)
    IN /\ Range(r.uploaded_documents) \cup Range(r.missing_documents) = required
       /\ Range(r.uploaded_documents) \cap Range(r.missing_documents) = {}
       /\ \A d \in Range(r.missing_documents) :
            /\ ~NameMatches(d, files)
            /\ Len(files) < Cardinality(required)
       /\ r.all_uploaded <=> (r.missing_documents = << >>)

\* C25 (placeholder fallback): whenever a successful turn moves the session to
\* company_verification, the prompt it renders for that step carries the
\* looked-up company name or the fallback text "the company", never the
\* unsubstituted token {company_name}, and the rendering does not raise.
RenderedAtCompanyVerification ==
  /\ IsTurn /\ last.status = 200
  /\ last.next_step = "company_verification"

C25_PlaceholderFallback ==
  RenderedAtCompanyVerification =>
    LET cd == last.data_after
        entry == last.history[Len(last.history)]
    IN /\ ~QuestionRaises("company_verification", cd)
       /\ entry.type = "bot" /\ entry.message = "company_verification"
       /\ entry.fill # "{company_name}"
       /\ \/ entry.fill = "the company"
          \/ /\ Has(cd, "company_verification_data")
             /\ ~cd["company_verification_data"].company_info.is_none
             /\ entry.fill = cd["company_verification_data"].company_info.company_name

\* C26 (every step is renderable): the step that a successful turn stores as
\* the session's current step has a question descriptor (get_next_question
\* does not return None for it), and the turn's response presents the
\* question of that step.
C26_EveryStepRenderable ==
  (IsTurn /\ last.status = 200) =>
    /\ LastRow.current_step = last.next_step
    /\ ~get_next_question(last.next_step, LastRole, last.data_after).none
    /\ last.shown = last.next_step

\* C27 (no fault after a failed address lookup): when address_collection
\* stored a failed result (verified false, formatted_address null, no
\* components), an affirmative answer at address_verification is processed
\* without a fault and moves the session to address_confirmation.
AffirmAfterFailedLookup ==
  /\ IsTurn /\ last.step = "address_verification"
  /\ Lower(last.message) \in ConfirmWords
  /\ Has(last.data_before, "address_verification_data")
  /\ ~last.data_before["address_verification_data"].verified

C27_NoFaultAfterFailedLookup ==
  AffirmAfterFailedLookup =>
    /\ last.status = 200
    /\ last.next_step = "address_confirmation"
    /\ LastRow.current_step = "address_confirmation"

\* C28 (progress to completion): for each role, when every turn from welcome
\* on carries a parseable non-command answer, the confirmations are
\* affirmative, every lookup is answered and the required documents are
\* uploaded before documents_collection, the session is at complete once as
\* many turns have been made as the role's sequence is long plus the number
\* of directors.
JourneyRow == sessions[FirstActive("u1")]

C28_ProgressToCompletion ==
  (/\ FirstActive("u1") # 0
   /\ turns >= Len(get_steps_for_role(user_role(roles["u1"])))
                + Len(DirectorsOf(JourneyRow.collected_data)))
    => JourneyRow.current_step = "complete"

\* C30 (injected answers are stored): a non-command turn at an extra step of
\* the selected funding type stores the answer under the step's declared
\* field (the parsed number for a number step, the message otherwise) and
\* increments current_funding_question_index by one.
Cursor(cd) ==
  IF Has(cd, "current_funding_question_index")
  THEN cd["current_funding_question_index"] ELSE 0

InjectedAnswer ==
  /\ IsTurn /\ last.status = 200 /\ NonCommand(last.message)
  /\ PositionIn(ExtraStepsOf(last.data_before), last.step) > 0

C30_InjectedAnswersStored ==
  InjectedAnswer =>
    LET fq == ExtraStepsOf(last.data_before)
        q == fq[PositionIn(fq, last.step)]
    IN /\ (q.type = "number" /\ ParseFloat(last.message).ok) =>
            /\ Has(last.data_after, q.field)
            /\ last.data_after[q.field] = ParseFloat(last.message).val
       /\ q.type # "number" =>
            /\ Has(last.data_after, q.field)
            /\ last.data_after[q.field] = last.message
       /\ Cursor(last.data_after) = Cursor(last.data_before) + 1
       /\ LastRow.collected_data = last.data_after

====
